---------------------------- MODULE Spec2Model ----------------------------
(***************************************************************************)
(* CR95HF NFC transceiver driver (circuitpython_yoto/cr95hf.py): bring-up *)
(* and ISO14443-A tag discovery over a framed UART link.                   *)
(*                                                                         *)
(* Bytes are naturals 0..255.  A Python value that may be None is a        *)
(* sequence of length <= 1: None is << >>, a value v is << v >>.           *)
(* The chip's behaviour in one exchange is a "delivery": the bytes the     *)
(* driver finds on the UART, in order, before its timeout budget runs out. *)
(***************************************************************************)
EXTENDS Integers, Sequences, FiniteSets

(* ------------------------------ constants ------------------------------ *)
CMD_IDN == 1
CMD_PROTOCOL == 2
CMD_SENDRECV == 4
CMD_ECHO == 85
RSP_SUCCESS == 0
RSP_DATA == 128
RSP_TIMEOUT == 135
PROTO_OFF == 0
PROTO_ISO14443A == 2
ISO14443A_REQA == 38
ISO14443A_WUPA == 82
ISO14443A_CT == 136
ISO14443A_SEL_CL1 == 147
ISO14443A_SEL_CL2 == 149
ISO14443A_NVB_ANTICOLL == 32
ISO14443A_NVB_SELECT == 112
FLAG_SHORTFRAME == 7
FLAG_STD == 8
FLAG_STD_CRC == 40

\* number of null bytes in one wake write (bytes([0x00] * 20))
WakeBurstLen == 20
\* minimum identification payload (len(data) < 13 is rejected)
IdnMinLen == 13
\* printable ASCII range kept in the device name (32 <= b <= 126)
PrintableLo == 32
PrintableHi == 126

(* -------------------------------- bounds ------------------------------- *)
\* most wake writes the wake loop performs before its duration elapses
MaxWakeBursts == 2

(* ------------------------------- helpers ------------------------------- *)
None == << >>
Some(v) == << v >>
IsNone(o) == o = << >>

Min(a, b) == IF a <= b THEN a ELSE b

\* Python slice s[a:b] with 0-based, clamped bounds
Slice(s, a, b) == SubSeq(s, a + 1, Min(b, Len(s)))

\* bytes([0x00] * n)
Zeros(n) == [i \in 1..n |-> 0]

(* ------------------------- Transport Framer --------------------------- *)
\* the bytes of s before its first 0, as a null-terminated string is read
RECURSIVE UpToNull(_)
UpToNull(s) ==
  IF s = << >> \/ Head(s) = 0 THEN << >> ELSE << Head(s) >> \o UpToNull(Tail(s))

\* faulty variant: the payload is cut at its first null byte
SendCmd_NullTerminated(cmd, data) ==
  << cmd, Len(UpToNull(data)) >> \o UpToNull(data)

\* _send_cmd: the frame written after the receive buffer has been drained
SendCmd(cmd, data) == << cmd, Len(data) >> \o data

\* A response frame as the chip puts it on the wire: result, length, payload
Frame(code, payload) == << code, Len(payload) >> \o payload

\* _read_response, given the bytes d that arrive before the budget runs out:
\* three waits (result code, length byte, payload), TimeoutError from each
ReadResponse(d) ==
  IF Len(d) = 0
  THEN [timeout |-> TRUE, msg |-> "Timeout waiting for result code",
        code |-> 0, data |-> << >>]
  ELSE IF Len(d) = 1
  THEN [timeout |-> TRUE, msg |-> "Timeout waiting for length byte",
        code |-> 0, data |-> << >>]
  ELSE IF Len(d) - 2 < d[2]
  THEN [timeout |-> TRUE, msg |-> "Timeout reading data",
        code |-> 0, data |-> << >>]
  ELSE [timeout |-> FALSE, msg |-> "",
        code |-> d[1], data |-> SubSeq(d, 3, 2 + d[2])]

\* faulty variant: the flag byte is written but not counted in the length
SendRecvFrame_FlagUncounted(rf_data, flags) ==
  << CMD_SENDRECV, Len(rf_data) >> \o rf_data \o << flags >>

\* _sendrecv: the command frame of one RF exchange (flags appended last)
SendRecvFrame(rf_data, flags) == SendCmd(CMD_SENDRECV, rf_data \o << flags >>)

(* ----------------------- Tag Discovery: commands ---------------------- *)
\* Python truthiness of a bytes object together with a minimum length
HasData(r, n) == r.code = RSP_DATA /\ Len(r.data) > 0 /\ Len(r.data) >= n

ReqaWupaFrame(cmd) == SendRecvFrame(<< cmd >>, FLAG_SHORTFRAME)

\* faulty variant: the two ATQA bytes in the wrong order
ReqaWupa_Swapped(r) ==
  IF HasData(r, 2) THEN Some(<< r.data[2], r.data[1] >>) ELSE None

ReqaWupa(r) ==
  IF HasData(r, 2) THEN Some(<< r.data[1], r.data[2] >>) ELSE None

AnticollCl1Frame ==
  SendRecvFrame(<< ISO14443A_SEL_CL1, ISO14443A_NVB_ANTICOLL >>, FLAG_STD)

\* faulty variant: a block of more than 5 bytes is refused
AnticollCl1_Exact5(r) ==
  IF HasData(r, 5) /\ Len(r.data) = 5 THEN Some(Slice(r.data, 0, 5)) ELSE None

AnticollCl1(r) == IF HasData(r, 5) THEN Some(Slice(r.data, 0, 5)) ELSE None

\* faulty variant: the check byte is left out of the select
SelectCl1Frame_NoBcc(uid_bcc) ==
  SendRecvFrame(<< ISO14443A_SEL_CL1, ISO14443A_NVB_SELECT >>
                  \o Slice(uid_bcc, 0, 4), FLAG_STD_CRC)

SelectCl1Frame(uid_bcc) ==
  SendRecvFrame(<< ISO14443A_SEL_CL1, ISO14443A_NVB_SELECT >> \o uid_bcc,
                FLAG_STD_CRC)

SelectCl1(r) == IF HasData(r, 1) THEN Some(r.data[1]) ELSE None

AnticollCl2Frame ==
  SendRecvFrame(<< ISO14443A_SEL_CL2, ISO14443A_NVB_ANTICOLL >>, FLAG_STD)

\* faulty variant: accepts a block of 4 bytes
AnticollCl2_Min4(r) == IF HasData(r, 4) THEN Some(Slice(r.data, 0, 5)) ELSE None

AnticollCl2(r) == IF HasData(r, 5) THEN Some(Slice(r.data, 0, 5)) ELSE None

SelectCl2Frame(uid_bcc) ==
  SendRecvFrame(<< ISO14443A_SEL_CL2, ISO14443A_NVB_SELECT >> \o uid_bcc,
                FLAG_STD_CRC)

SelectCl2(r) == IF HasData(r, 1) THEN Some(r.data[1]) ELSE None

\* read_tag's return values
NoTag == [uid |-> None, sak |-> None]
\* faulty variant: the cascade tag is never recognised
IsCascade_Never(cl1) == FALSE
\* faulty variant: every tag is taken to level 2
IsCascade_Always(cl1) == TRUE

IsCascade(cl1) == cl1[1] = ISO14443A_CT
\* faulty variant: keeps the check byte in the UID
Uid4_WithBcc(cl1) == Slice(cl1, 0, 5)
Uid4(cl1) == Slice(cl1, 0, 4)
\* faulty variant: keeps the cascade tag instead of skipping it
UidPrefix_FromZero(cl1) == Slice(cl1, 0, 3)
UidPrefix(cl1) == Slice(cl1, 1, 4)
\* faulty variant: one level-2 byte short
Uid7_Short(cl1, cl2) == UidPrefix(cl1) \o Slice(cl2, 0, 3)
Uid7(cl1, cl2) == UidPrefix(cl1) \o Slice(cl2, 0, 4)

(* --------------------------- text formatting --------------------------- *)
HexDigits ==
  << "0", "1", "2", "3", "4", "5", "6", "7", "8", "9",
     "A", "B", "C", "D", "E", "F" >>
\* faulty variant: lower-case digits, as {sak:02x} would give
HexDigitsLower ==
  << "0", "1", "2", "3", "4", "5", "6", "7", "8", "9",
     "a", "b", "c", "d", "e", "f" >>

\* the format {sak:02X}: two upper-case hexadecimal digits
Hex02X_Lower(n) == HexDigitsLower[(n \div 16) + 1] \o HexDigitsLower[(n % 16) + 1]

Hex02X(n) == HexDigits[(n \div 16) + 1] \o HexDigits[(n % 16) + 1]

(* ------------------------- Bring-up: commands ------------------------- *)
\* faulty variant: the echo written as a framed command with no payload
EchoFrame_Framed == << CMD_ECHO, 0 >>

\* echo_test: uart.write(bytes([CMD_ECHO])), one byte
EchoFrame == << CMD_ECHO >>
IdnFrame == SendCmd(CMD_IDN, << >>)
ProtocolFrame == SendCmd(CMD_PROTOCOL, << PROTO_ISO14443A, 0 >>)
WakeBytes == Zeros(WakeBurstLen)

\* faulty variant: the payload length is not checked
IdnValid_NoLen(r) == ~ (r.code # RSP_SUCCESS \/ Len(r.data) = 0)

\* faulty variant: the result code is not checked
IdnValid_AnyCode(r) == ~ (Len(r.data) = 0 \/ Len(r.data) < IdnMinLen)

\* the identification response check of _initialize
IdnValid(r) ==
  ~ (r.code # RSP_SUCCESS \/ Len(r.data) = 0 \/ Len(r.data) < IdnMinLen)

\* faulty variant: bytes outside 32..126 are kept in the name
RECURSIVE NameOf_NoFilter(_)
NameOf_NoFilter(bs) ==
  IF bs = << >> THEN << >>
  ELSE IF Head(bs) = 0 THEN << >>
  ELSE << Head(bs) >> \o NameOf_NoFilter(Tail(bs))

\* the device-name loop: stop at the first null, keep printable bytes
RECURSIVE NameOf(_)
NameOf(bs) ==
  IF bs = << >> THEN << >>
  ELSE IF Head(bs) = 0 THEN << >>
  ELSE IF PrintableLo <= Head(bs) /\ Head(bs) <= PrintableHi
       THEN << Head(bs) >> \o NameOf(Tail(bs))
       ELSE NameOf(Tail(bs))

DeviceName(data) == NameOf(Slice(data, 0, IdnMinLen))

(* --------------------- the chip: sample deliveries --------------------- *)
\* "NFC FS2JAST4", a null and two CRC bytes: the identification payload
IdnPayload ==
  << 78, 70, 67, 32, 70, 83, 50, 74, 65, 83, 84, 52, 0, 42, 206 >>
\* 13 bytes with a control byte in the name and an early null
IdnPayloadOdd == << 78, 7, 70, 0, 67, 32, 70, 83, 50, 74, 65, 83, 84 >>
\* 12 bytes: one short of the minimum
IdnPayloadShort == << 78, 70, 67, 32, 70, 83, 50, 74, 65, 83, 84, 52 >>

\* 14 printable bytes and then a null: no null among the first 13
IdnPayloadLong ==
  << 78, 70, 67, 32, 70, 83, 50, 74, 65, 83, 84, 52, 53, 54, 0 >>

BringUpDeliveries ==
  { << >>, << CMD_ECHO >>, << RSP_SUCCESS >>, << RSP_SUCCESS, 15, 78 >>,
    << RSP_SUCCESS, CMD_ECHO >>,
    Frame(RSP_SUCCESS, << >>), Frame(130, << >>),
    Frame(RSP_SUCCESS, IdnPayload), Frame(RSP_SUCCESS, IdnPayloadOdd),
    Frame(RSP_SUCCESS, IdnPayloadShort), Frame(RSP_SUCCESS, IdnPayloadLong), Frame(RSP_DATA, IdnPayload) }

AtqaDeliveries ==
  { << >>, << RSP_DATA >>, << RSP_DATA, 2, 4 >>,
    Frame(RSP_DATA, << 4 >>), Frame(RSP_DATA, << 4, 0 >>),
    Frame(RSP_DATA, << 68, 0, 9 >>),
    Frame(RSP_TIMEOUT, << >>), Frame(RSP_SUCCESS, << 4, 0 >>) }

AnticollDeliveries ==
  { << >>, << RSP_DATA >>, << RSP_DATA, 5, 136, 17 >>,
    Frame(RSP_DATA, << >>), Frame(RSP_DATA, << 136, 17, 34, 51 >>),
    Frame(RSP_DATA, << 1, 2, 3, 4, 6 >>),
    Frame(RSP_DATA, << 136, 17, 34, 51, 170 >>),
    Frame(RSP_DATA, << 68, 85, 102, 119, 187 >>),
    Frame(RSP_DATA, << 0, 0, 0, 0, 0 >>),
    Frame(RSP_DATA, << 136, 0, 0, 0, 136 >>),
    Frame(RSP_DATA, << 68, 85, 102, 119, 187, 204 >>),
    Frame(RSP_TIMEOUT, << >>), Frame(RSP_SUCCESS, << 1, 2, 3, 4, 6 >>) }

SelectDeliveries ==
  { << >>, << RSP_DATA >>, << RSP_DATA, 3, 8 >>,
    Frame(RSP_DATA, << >>), Frame(RSP_DATA, << 8 >>),
    Frame(RSP_DATA, << 0 >>), Frame(RSP_DATA, << 32 >>),
    Frame(RSP_DATA, << 4, 218, 23 >>),
    Frame(RSP_TIMEOUT, << >>), Frame(RSP_SUCCESS, << 8 >>) }

(* -------------------------------- state -------------------------------- *)
VARIABLES
  pc,           \* position of the caller in the driver
  device_name,  \* self._device_name
  last_atqa,    \* self._last_atqa
  cl1,          \* read_tag local: cascade-level-1 anticollision result
  sak1,         \* read_tag local: cascade-level-1 SAK
  cl2,          \* read_tag local: cascade-level-2 anticollision result
  outcome,      \* how the last read_tag call ended: none, returned, raised
  ret,          \* the value the last read_tag call returned
  exc,          \* the exception raised by the last operation
  tx,           \* frames written to the UART by the current operation
  obs,          \* what the chip delivered at each step of the operation
  entry,        \* driver state when the current read_tag call began
  prev,         \* how the call before the current one ended
  rpc,          \* byte level: position inside one exchange
  rxbuf,        \* byte level: the UART receive buffer (in_waiting = Len)
  wire,         \* byte level: bytes the chip has sent and not yet delivered
  now,          \* byte level: time.monotonic(), in ticks
  start,        \* _read_response local: the clock at call entry
  result_code,  \* _read_response local
  length,       \* _read_response local
  data,         \* _read_response local: the payload accumulated so far
  rexc,         \* the TimeoutError raised by the last _read_response
  xch,          \* byte level: number of the current exchange
  hist,         \* byte level: what happened during the current exchange
  call,         \* the last call other than read_tag, and what it gave back
  tcal,         \* TCAL6416: the output shadows and the last register write
  enc,          \* the two rotary encoders and YotoMini's last positions
  yoto          \* YotoMini: the peripherals it holds

drvvars == << pc, device_name, last_atqa, cl1, sak1, cl2, outcome, ret, exc,
              tx, obs, entry, prev >>
rxvars == << rpc, rxbuf, wire, now, start, result_code, length, data, rexc,
             xch, hist >>
devvars == << tcal, enc, yoto >>
vars == << drvvars, rxvars, call, devvars >>

BringUpSteps == { "echo", "idn", "protocol" }
TagSteps ==
  { "wupa", "reqa", "anticoll_cl1", "select_cl1", "anticoll_cl2",
    "select_cl2" }
Steps == BringUpSteps \cup TagSteps

Unsent == [st |-> "unsent", code |-> 0, data |-> << >>]
\* what a delivery shows of the chip: a timeout or one complete frame
Observe(d) ==
  IF ReadResponse(d).timeout
  THEN [st |-> "timeout", code |-> 0, data |-> << >>]
  ELSE [st |-> "frame", code |-> d[1], data |-> SubSeq(d, 3, 2 + d[2])]
\* the echo reply is a single byte, not a frame
ObserveEcho(d) ==
  IF Len(d) = 0
  THEN [st |-> "timeout", code |-> 0, data |-> << >>]
  ELSE [st |-> "frame", code |-> d[1], data |-> << >>]

NoExc == [type |-> "none", msg |-> ""]
TimeoutError(m) == [type |-> "TimeoutError", msg |-> m]
OSError(m) == [type |-> "OSError", msg |-> m]
NoPrev == [noAtqa |-> FALSE, outcome |-> "none", ret |-> NoTag]

\* no call other than read_tag has been made since the last read_tag
NoCall ==
  [op |-> "none", arg |-> 0, str |-> "", bytes |-> << >>, out |-> << >>]
\* byte level: no exception, and the record of an exchange not yet begun
NoRxExc == [msg |-> "", got |-> 0, expected |-> 0]
NoHist ==
  [resp |-> << >>, dirty |-> FALSE, intime |-> 0, read |-> << >>,
   emptyLate |-> FALSE, overdue |-> FALSE, abandoned |-> {}, stale |-> {},
   garbage |-> 0]

\* register addresses of the IO expander
OUTPUT_PORT_0 == 2
OUTPUT_PORT_1 == 3
Pins == 0..15

\* the IO expander after configure_yoto_mini_defaults: both shadows 0x00,
\* port 1's output register written last; set is what set_pin was last asked
\* for each pin, calls the number of set_pin calls made
TcalDefaults ==
  [port0_output |-> 0, port1_output |-> 0,
   reg |-> OUTPUT_PORT_1, value |-> 0,
   set |-> [p \in Pins |-> 0], calls |-> 0]

\* an encoder before YotoMini.__init__ reaches it: the counter at rest
NoEncoder ==
  [obj |-> "unset", position |-> 0, last_position |-> 0, pos0 |-> 0,
   sum |-> 0]
\* no delta call made yet
NoEnc == [left |-> NoEncoder, right |-> NoEncoder, op |-> "none", ret |-> 0]

\* YotoMini before the peripherals are constructed
NoYoto ==
  [nfc |-> "unset", audio |-> "unset", dac |-> "unset", deinit |-> "none"]

\* __init__ up to the call of _initialize
Init ==
  /\ pc = "new"
  /\ device_name = << >>
  /\ last_atqa = << 0, 0 >>
  /\ cl1 = None /\ sak1 = None /\ cl2 = None
  /\ outcome = "none"
  /\ ret = NoTag
  /\ exc = NoExc
  /\ tx = << >>
  /\ obs = [s \in Steps |-> Unsent]
  /\ entry = [last_atqa |-> << 0, 0 >>, device_name |-> << >>,
              after_off |-> FALSE]
  /\ prev = NoPrev
  /\ rpc = "idle"
  /\ rxbuf = << >> /\ wire = << >>
  /\ now = 0 /\ start = 0
  /\ result_code = 0 /\ length = 0 /\ data = << >>
  /\ rexc = NoRxExc
  /\ xch = 0
  /\ hist = NoHist
  /\ call = NoCall
  /\ tcal = TcalDefaults
  /\ enc = NoEnc
  /\ yoto = NoYoto

(* ------------------------------- bring-up ------------------------------ *)
\* faulty variant: any reply byte passes the echo test
EchoTest_AnyByte(d) ==
  IF Len(d) = 0 THEN "Echo test failed: no response from device" ELSE ""

\* faulty variant: the echo byte is looked for among all bytes received
EchoTest_AnyPosition(d) ==
  IF Len(d) = 0 THEN "Echo test failed: no response from device"
  ELSE IF \E k \in 1..Len(d) : d[k] = CMD_ECHO THEN ""
  ELSE "Echo test failed: expected 0x55, got 0x" \o Hex02X(d[1])

\* echo_test: "" when the first byte read is the echo, else the error text
EchoTest(d) ==
  IF Len(d) = 0 THEN "Echo test failed: no response from device"
  ELSE IF d[1] = CMD_ECHO THEN ""
  ELSE "Echo test failed: expected 0x55, got 0x" \o Hex02X(d[1])

\* construction fails: the exception leaves __init__
InitFails(m) == pc' = "failed" /\ exc' = OSError(m)

\* _initialize: wake writes for the wake duration, settle, drain
Initialize_Wake ==
  /\ pc = "new"
  /\ \E n \in 0..MaxWakeBursts : tx' = [i \in 1..n |-> WakeBytes]
  /\ pc' = "echo"
  /\ UNCHANGED << device_name, last_atqa, cl1, sak1, cl2, outcome, ret, exc,
                  obs, entry, prev >>
  /\ UNCHANGED << rxvars, call, devvars >>

\* _initialize: echo test
Initialize_Echo ==
  /\ pc = "echo"
  /\ \E d \in BringUpDeliveries :
       /\ tx' = Append(tx, EchoFrame)
       /\ obs' = [obs EXCEPT !["echo"] = ObserveEcho(d)]
       /\ IF EchoTest(d) = ""
          THEN pc' = "idn" /\ exc' = exc
          ELSE InitFails("CR95HF initialization failed: " \o EchoTest(d))
  /\ UNCHANGED << device_name, last_atqa, cl1, sak1, cl2, outcome, ret,
                  entry, prev >>
  /\ UNCHANGED << rxvars, call, devvars >>

\* _initialize: device identification and name extraction
Initialize_Idn ==
  /\ pc = "idn"
  /\ \E d \in BringUpDeliveries :
       LET r == ReadResponse(d) IN
       /\ tx' = Append(tx, IdnFrame)
       /\ obs' = [obs EXCEPT !["idn"] = Observe(d)]
       /\ IF r.timeout
          THEN InitFails("Failed to read device ID") /\ device_name' = device_name
          ELSE IF ~ IdnValid(r)
          THEN InitFails("Invalid IDN response") /\ device_name' = device_name
          ELSE /\ device_name' = DeviceName(r.data)
               /\ pc' = "protocol"
               /\ exc' = exc
  /\ UNCHANGED << last_atqa, cl1, sak1, cl2, outcome, ret, entry, prev >>
  /\ UNCHANGED << rxvars, call, devvars >>

\* _initialize: ISO14443-A protocol selection
Initialize_Protocol ==
  /\ pc = "protocol"
  /\ \E d \in BringUpDeliveries :
       LET r == ReadResponse(d) IN
       /\ tx' = Append(tx, ProtocolFrame)
       /\ obs' = [obs EXCEPT !["protocol"] =
                    [Observe(d) EXCEPT !.data = << >>]]
       /\ IF r.timeout
          THEN InitFails("Failed to select protocol")
          ELSE IF r.code # RSP_SUCCESS
          THEN InitFails("Protocol selection failed")
          ELSE pc' = "ready" /\ exc' = exc
  /\ UNCHANGED << device_name, last_atqa, cl1, sak1, cl2, outcome, ret,
                  entry, prev >>
  /\ UNCHANGED << rxvars, call, devvars >>

(* ------------------------------- read_tag ------------------------------ *)
\* the frame at a step carried an ATQA: "data follows" with two bytes or more
IsAtqa(o) == o.st = "frame" /\ o.code = RSP_DATA /\ Len(o.data) >= 2
NoAtqaSeen == ~ IsAtqa(obs["wupa"]) /\ ~ IsAtqa(obs["reqa"])

\* variant: a no-tag return that gives back the tag of an earlier call
Return_Sticky(v) ==
  /\ pc' = "ready" /\ outcome' = "returned" /\ exc' = NoExc
  /\ ret' = IF v = NoTag /\ last_atqa # << 0, 0 >>
            THEN [uid |-> Some(last_atqa), sak |-> Some(0)]
            ELSE v
Return(v) ==
  pc' = "ready" /\ outcome' = "returned" /\ ret' = v /\ exc' = NoExc
Raise(e) ==
  pc' = "ready" /\ outcome' = "raised" /\ ret' = NoTag /\ exc' = e
Goto(l) == pc' = l /\ UNCHANGED << outcome, ret, exc >>

\* the caller invokes read_tag on a constructed driver
ReadTag_Start ==
  /\ pc = "ready"
  /\ pc' = "wupa"
  /\ cl1' = None /\ sak1' = None /\ cl2' = None
  /\ outcome' = "none" /\ ret' = NoTag /\ exc' = NoExc
  /\ tx' = << >>
  /\ obs' = [s \in Steps |-> IF s \in TagSteps THEN Unsent ELSE obs[s]]
  /\ entry' = [last_atqa |-> last_atqa, device_name |-> device_name,
               after_off |-> (call.op = "field_off")]
  /\ prev' = IF outcome # "none" /\ NoAtqaSeen
             THEN [noAtqa |-> TRUE, outcome |-> outcome, ret |-> ret]
             ELSE NoPrev
  /\ call' = NoCall
  /\ UNCHANGED << device_name, last_atqa >>
  /\ UNCHANGED << rxvars, devvars >>

\* read_tag: wake-up request
ReadTag_Wupa ==
  /\ pc = "wupa"
  /\ \E d \in AtqaDeliveries :
       LET r == ReadResponse(d)
           a == ReqaWupa(r)
       IN
       /\ tx' = Append(tx, ReqaWupaFrame(ISO14443A_WUPA))
       /\ obs' = [obs EXCEPT !["wupa"] = Observe(d)]
       /\ IF r.timeout
          THEN Raise(TimeoutError(r.msg)) /\ last_atqa' = last_atqa
          ELSE IF IsNone(a)
          THEN Goto("reqa") /\ last_atqa' = last_atqa
          ELSE Goto("anticoll_cl1") /\ last_atqa' = a[1]
  /\ UNCHANGED << device_name, cl1, sak1, cl2, entry, prev >>
  /\ UNCHANGED << rxvars, call, devvars >>

\* read_tag: the request fallback, then the no-tag return
ReadTag_Reqa ==
  /\ pc = "reqa"
  /\ \E d \in AtqaDeliveries :
       LET r == ReadResponse(d)
           a == ReqaWupa(r)
       IN
       /\ tx' = Append(tx, ReqaWupaFrame(ISO14443A_REQA))
       /\ obs' = [obs EXCEPT !["reqa"] = Observe(d)]
       /\ IF r.timeout
          THEN Raise(TimeoutError(r.msg)) /\ last_atqa' = last_atqa
          ELSE IF IsNone(a)
          THEN Return(NoTag) /\ last_atqa' = last_atqa
          ELSE Goto("anticoll_cl1") /\ last_atqa' = a[1]
  /\ UNCHANGED << device_name, cl1, sak1, cl2, entry, prev >>
  /\ UNCHANGED << rxvars, call, devvars >>

\* read_tag: anticollision at cascade level 1
ReadTag_AnticollCl1 ==
  /\ pc = "anticoll_cl1"
  /\ \E d \in AnticollDeliveries :
       LET r == ReadResponse(d)
           c == AnticollCl1(r)
       IN
       /\ tx' = Append(tx, AnticollCl1Frame)
       /\ obs' = [obs EXCEPT !["anticoll_cl1"] = Observe(d)]
       /\ IF r.timeout
          THEN Raise(TimeoutError(r.msg)) /\ cl1' = cl1
          ELSE IF IsNone(c)
          THEN Return(NoTag) /\ cl1' = c
          ELSE Goto("select_cl1") /\ cl1' = c
  /\ UNCHANGED << device_name, last_atqa, sak1, cl2, entry, prev >>
  /\ UNCHANGED << rxvars, call, devvars >>

\* read_tag: select at cascade level 1 and the cascade decision
ReadTag_SelectCl1 ==
  /\ pc = "select_cl1"
  /\ \E d \in SelectDeliveries :
       LET r == ReadResponse(d)
           k == SelectCl1(r)
       IN
       /\ tx' = Append(tx, SelectCl1Frame(cl1[1]))
       /\ obs' = [obs EXCEPT !["select_cl1"] = Observe(d)]
       /\ IF r.timeout
          THEN Raise(TimeoutError(r.msg)) /\ sak1' = sak1
          ELSE IF IsNone(k)
          THEN Return(NoTag) /\ sak1' = k
          ELSE IF ~ IsCascade(cl1[1])
          THEN Return([uid |-> Some(Uid4(cl1[1])), sak |-> Some(k[1])]) /\ sak1' = k
          ELSE Goto("anticoll_cl2") /\ sak1' = k
  /\ UNCHANGED << device_name, last_atqa, cl1, cl2, entry, prev >>
  /\ UNCHANGED << rxvars, call, devvars >>

\* read_tag: anticollision at cascade level 2
ReadTag_AnticollCl2 ==
  /\ pc = "anticoll_cl2"
  /\ \E d \in AnticollDeliveries :
       LET r == ReadResponse(d)
           c == AnticollCl2(r)
       IN
       /\ tx' = Append(tx, AnticollCl2Frame)
       /\ obs' = [obs EXCEPT !["anticoll_cl2"] = Observe(d)]
       /\ IF r.timeout
          THEN Raise(TimeoutError(r.msg)) /\ cl2' = cl2
          ELSE IF IsNone(c)
          THEN Return(NoTag) /\ cl2' = c
          ELSE Goto("select_cl2") /\ cl2' = c
  /\ UNCHANGED << device_name, last_atqa, cl1, sak1, entry, prev >>
  /\ UNCHANGED << rxvars, call, devvars >>

\* read_tag: select at cascade level 2 and the 7-byte return
ReadTag_SelectCl2 ==
  /\ pc = "select_cl2"
  /\ \E d \in SelectDeliveries :
       LET r == ReadResponse(d)
           k == SelectCl2(r)
       IN
       /\ tx' = Append(tx, SelectCl2Frame(cl2[1]))
       /\ obs' = [obs EXCEPT !["select_cl2"] = Observe(d)]
       /\ IF r.timeout
          THEN Raise(TimeoutError(r.msg))
          ELSE IF IsNone(k)
          THEN Return(NoTag)
          ELSE Return([uid |-> Some(Uid7(cl1[1], cl2[1])), sak |-> Some(k[1])])
  /\ UNCHANGED << device_name, last_atqa, cl1, sak1, cl2, entry, prev >>
  /\ UNCHANGED << rxvars, call, devvars >>

(* --------------------- the other calls of the driver ------------------- *)
\* variant: field_off selecting ISO14443-A instead of switching the field off
FieldOffFrame_Select == SendCmd(CMD_PROTOCOL, << PROTO_ISO14443A, 0 >>)
FieldOffFrame == SendCmd(CMD_PROTOCOL, << PROTO_OFF, 0 >>)

\* what the chip may answer to the field-off command: nothing, success, an
\* error code, a result code alone
FieldOffDeliveries ==
  { << >>, Frame(RSP_SUCCESS, << >>), Frame(130, << >>), << RSP_SUCCESS >> }

\* field_off: the command is written and the response read; the code and
\* the payload are dropped, a TimeoutError of _read_response is not caught
FieldOff ==
  /\ pc = "ready"
  /\ \E d \in FieldOffDeliveries :
       LET r == ReadResponse(d) IN
       /\ tx' = << FieldOffFrame >>
       /\ exc' = IF r.timeout THEN TimeoutError(r.msg) ELSE NoExc
       /\ call' = [NoCall EXCEPT !.op = "field_off",
                                 !.str = IF r.timeout THEN "raised"
                                         ELSE "returned"]
  /\ outcome' = "none" /\ ret' = NoTag
  /\ obs' = [s \in Steps |-> IF s \in TagSteps THEN Unsent ELSE obs[s]]
  /\ prev' = NoPrev
  /\ UNCHANGED << pc, device_name, last_atqa, cl1, sak1, cl2, entry >>
  /\ UNCHANGED << rxvars, devvars >>

\* the device_name property
Get_DeviceName ==
  /\ pc = "ready"
  /\ call' = [NoCall EXCEPT !.op = "device_name", !.bytes = device_name]
  /\ UNCHANGED << drvvars, rxvars, devvars >>

\* faulty variant: reading the property clears the stored ATQA
Get_LastAtqa_Clears ==
  /\ pc = "ready"
  /\ call' = [NoCall EXCEPT !.op = "last_atqa", !.bytes = last_atqa]
  /\ last_atqa' = Zeros(2)
  /\ UNCHANGED << pc, device_name, cl1, sak1, cl2, outcome, ret, exc, tx, obs,
                  entry, prev >>
  /\ UNCHANGED << rxvars, devvars >>

\* the last_atqa property: a copy of the two bytes
Get_LastAtqa ==
  /\ pc = "ready"
  /\ call' = [NoCall EXCEPT !.op = "last_atqa", !.bytes = last_atqa]
  /\ UNCHANGED << drvvars, rxvars, devvars >>

(* ------------------------------ card_type ------------------------------ *)
\* the card_types dictionary
card_types ==
  { << 0, "MIFARE Ultralight/NTAG" >>,
    << 8, "MIFARE Classic 1K" >>,
    << 9, "MIFARE Mini" >>,
    << 24, "MIFARE Classic 4K" >>,
    << 16, "MIFARE Plus 2K" >>,
    << 17, "MIFARE Plus 4K" >>,
    << 32, "MIFARE Plus/DESFire" >>,
    << 40, "JCOP/SmartMX" >>,
    << 56, "MIFARE Classic 4K (emu)" >>,
    << 136, "MIFARE Classic 1K (Infineon)" >>,
    << 152, "MIFARE ProX" >> }

\* card_type: card_types.get(sak, f"Unknown (SAK=0x{sak:02X})")
CardType(sak) ==
  IF \E e \in card_types : e[1] = sak
  THEN (CHOOSE e \in card_types : e[1] = sak)[2]
  ELSE "Unknown (SAK=0x" \o Hex02X(sak) \o ")"

\* every value of one byte
SakValues == 0..255

\* what a call of card_type gives back
CardTypeResult(sak) ==
  [NoCall EXCEPT !.op = "card_type", !.arg = sak, !.str = CardType(sak)]

\* card_type on any byte, on a constructed driver
Call_CardType ==
  /\ pc = "ready"
  /\ \E sak \in SakValues : call' = CardTypeResult(sak)
  /\ UNCHANGED << drvvars, rxvars, devvars >>

\* card_type on the SAK read_tag has just returned
Call_CardTypeOfTag ==
  /\ pc = "ready"
  /\ outcome = "returned" /\ ~ IsNone(ret.sak)
  /\ call' = CardTypeResult(ret.sak[1])
  /\ UNCHANGED << drvvars, rxvars, devvars >>

Next ==
  \/ Initialize_Wake
  \/ Initialize_Echo
  \/ Initialize_Idn
  \/ Initialize_Protocol
  \/ ReadTag_Start
  \/ ReadTag_Wupa
  \/ ReadTag_Reqa
  \/ ReadTag_AnticollCl1
  \/ ReadTag_SelectCl1
  \/ ReadTag_AnticollCl2
  \/ ReadTag_SelectCl2
  \/ FieldOff
  \/ Get_DeviceName
  \/ Get_LastAtqa
  \/ Call_CardTypeOfTag

Spec == Init /\ [][Next]_vars

\* construction followed by card_type calls on every byte
NextCard ==
  \/ Initialize_Wake
  \/ Initialize_Echo
  \/ Initialize_Idn
  \/ Initialize_Protocol
  \/ Call_CardType

SpecCard == Init /\ [][NextCard]_vars

(* ------------------------------ _send_cmd ------------------------------ *)
\* longest payload handed to _send_cmd
MaxPayloadLen == 3
\* payload bytes: the null byte, an ordinary byte, the largest byte
PayloadBytes == { 0, 7, 255 }
Payloads ==
  UNION { [1..n -> PayloadBytes] : n \in 0..MaxPayloadLen }
\* the command codes of the driver, and one it never uses
SendCodes == { CMD_IDN, CMD_PROTOCOL, CMD_SENDRECV, CMD_ECHO, 0 }

\* _send_cmd(cmd, data): the drain, then one write of the frame
Call_SendCmd ==
  /\ \E cmd \in SendCodes, payload \in Payloads :
       /\ call' = [NoCall EXCEPT !.op = "_send_cmd", !.arg = cmd,
                                 !.bytes = payload,
                                 !.out = SendCmd(cmd, payload)]
       /\ tx' = << SendCmd(cmd, payload) >>
  /\ UNCHANGED << pc, device_name, last_atqa, cl1, sak1, cl2, outcome, ret,
                  exc, obs, entry, prev >>
  /\ UNCHANGED << rxvars, devvars >>

NextSend == Call_SendCmd

SpecSend == Init /\ [][NextSend]_vars

(* ===================== byte level: one exchange ======================= *)
(* _send_cmd followed by _read_response, one action per loop iteration.    *)
(* Every byte carries the number of the exchange whose response it belongs *)
(* to; the driver reads only its value.  A poll reads the byte count and   *)
(* the clock at one instant.                                               *)

\* ticks of the timeout budget of _read_response (timeout_ms / 1000.0)
BudgetTicks == 2
\* exchanges followed, one after the other
MaxExchanges == 2

\* what the chip may put on the wire in answer to a command: nothing, a
\* frame cut short, complete frames, a frame followed by one more byte
RxResponses ==
  { << >>, << RSP_DATA >>, << RSP_DATA, 2, 7 >>,
    Frame(RSP_TIMEOUT, << >>), Frame(RSP_DATA, << 7, 9 >>),
    Frame(RSP_DATA, << 7 >>) \o << 99 >> }

Tagged(bs, x) == [i \in 1..Len(bs) |-> [b |-> bs[i], x |-> x, i |-> i]]
\* which byte of which response a byte on the channel is
IdsOf(ts) == { << ts[k].x, ts[k].i >> : k \in 1..Len(ts) }
Bytes(ts) == [i \in 1..Len(ts) |-> ts[i].b]
Receiving == rpc \in { "wait_code", "wait_len", "read_data" }

\* time.monotonic() - start > timeout_s
Expired_Never == FALSE

Expired == now - start > BudgetTicks

RxRaise(m, g, e) ==
  rpc' = "raised" /\ rexc' = [msg |-> m, got |-> g, expected |-> e]

\* the caller starts an exchange: _send_cmd is entered
Rx_Begin ==
  /\ rpc \in { "idle", "returned", "raised" }
  /\ xch < MaxExchanges
  /\ rpc' = "flush"
  /\ xch' = xch + 1
  /\ result_code' = 0 /\ length' = 0 /\ data' = << >>
  /\ rexc' = NoRxExc
  /\ hist' = [NoHist EXCEPT !.abandoned =
                hist.abandoned \cup (IF rpc = "raised" THEN { xch } ELSE { }),
                            !.stale = IdsOf(rxbuf)]
  /\ UNCHANGED << rxbuf, wire, now, start >>
  /\ UNCHANGED << drvvars, call, devvars >>

\* _flush_rx: in_waiting is non-zero, everything buffered is read away
Rx_FlushRead ==
  /\ rpc = "flush"
  /\ rxbuf # << >>
  /\ rxbuf' = << >>
  /\ UNCHANGED << rpc, wire, now, start, result_code, length, data, rexc,
                  xch, hist >>
  /\ UNCHANGED << drvvars, call, devvars >>

\* faulty variant: the command is written without draining first
Rx_FlushExit_NoDrain ==
  /\ rpc = "flush"
  /\ rpc' = "write"
  /\ UNCHANGED << rxbuf, wire, now, start, result_code, length, data, rexc,
                  xch, hist >>
  /\ UNCHANGED << drvvars, call, devvars >>

\* _flush_rx: in_waiting is zero, the loop ends
Rx_FlushExit ==
  /\ rpc = "flush"
  /\ rxbuf = << >>
  /\ rpc' = "write"
  /\ UNCHANGED << rxbuf, wire, now, start, result_code, length, data, rexc,
                  xch, hist >>
  /\ UNCHANGED << drvvars, call, devvars >>

\* _send_cmd: uart.write(frame); the chip answers; _read_response is
\* entered and reads the clock
Rx_Write ==
  /\ rpc = "write"
  /\ \E f \in RxResponses :
       /\ wire' = wire \o Tagged(f, xch)
       /\ hist' = [hist EXCEPT !.resp = f,
                               !.dirty = (wire # << >> \/ rxbuf # << >>)]
  /\ start' = now
  /\ rpc' = "wait_code"
  /\ UNCHANGED << rxbuf, now, result_code, length, data, rexc, xch >>
  /\ UNCHANGED << drvvars, call, devvars >>

\* _read_response: one iteration of the wait for the result code
Rx_WaitCode ==
  /\ rpc = "wait_code"
  /\ IF Len(rxbuf) = 0
     THEN /\ hist' = [hist EXCEPT !.emptyLate =
                        hist.emptyLate \/ now - start > BudgetTicks]
          /\ IF Expired
             THEN RxRaise("Timeout waiting for result code", 0, 0)
             ELSE UNCHANGED << rpc, rexc >>
          /\ UNCHANGED << rxbuf, result_code >>
     ELSE /\ result_code' = Head(rxbuf).b
          /\ rxbuf' = Tail(rxbuf)
          /\ hist' = [hist EXCEPT !.read = Append(hist.read, Head(rxbuf))]
          /\ rpc' = "wait_len"
          /\ UNCHANGED rexc
  /\ UNCHANGED << wire, now, start, length, data, xch >>
  /\ UNCHANGED << drvvars, call, devvars >>

\* _read_response: one iteration of the wait for the length byte
Rx_WaitLen ==
  /\ rpc = "wait_len"
  /\ IF Len(rxbuf) = 0
     THEN /\ hist' = [hist EXCEPT !.emptyLate =
                        hist.emptyLate \/ now - start > BudgetTicks]
          /\ IF Expired
             THEN RxRaise("Timeout waiting for length byte", 0, 0)
             ELSE UNCHANGED << rpc, rexc >>
          /\ UNCHANGED << rxbuf, length >>
     ELSE /\ length' = Head(rxbuf).b
          /\ rxbuf' = Tail(rxbuf)
          /\ hist' = [hist EXCEPT !.read = Append(hist.read, Head(rxbuf))]
          /\ rpc' = IF Head(rxbuf).b = 0 THEN "returned" ELSE "read_data"
          /\ UNCHANGED rexc
  /\ UNCHANGED << wire, now, start, result_code, data, xch >>
  /\ UNCHANGED << drvvars, call, devvars >>

\* the chunk one iteration of the payload loop reads
ChunkLen_All(available, missing) == available

\* variant: one byte more than is missing is requested
ChunkLen_PlusOne(available, missing) == Min(available, missing + 1)

ChunkLen(available, missing) == Min(available, missing)

\* the payload loop ends: not (len(data) < length)
PayloadDone_Any(have, want) == have >= 1

PayloadDone(have, want) == ~ (have < want)

\* _read_response: one iteration of the payload loop
Rx_ReadData ==
  /\ rpc = "read_data"
  /\ IF Len(rxbuf) > 0
     THEN LET n == ChunkLen(Len(rxbuf), length - Len(data))
              chunk == SubSeq(rxbuf, 1, n)
          IN
          /\ data' = data \o Bytes(chunk)
          /\ rxbuf' = SubSeq(rxbuf, n + 1, Len(rxbuf))
          /\ hist' = [hist EXCEPT !.read = hist.read \o chunk]
          /\ rpc' = IF PayloadDone(Len(data) + n, length)
                    THEN "returned" ELSE "read_data"
          /\ UNCHANGED rexc
     ELSE /\ hist' = [hist EXCEPT !.emptyLate =
                        hist.emptyLate \/ now - start > BudgetTicks]
          /\ IF Expired
             THEN RxRaise("Timeout reading data", Len(data), length)
             ELSE UNCHANGED << rpc, rexc >>
          /\ UNCHANGED << rxbuf, data >>
  /\ UNCHANGED << wire, now, start, result_code, length, xch >>
  /\ UNCHANGED << drvvars, call, devvars >>

\* the UART receives the next k bytes of what the chip has sent
Chip_Deliver ==
  /\ wire # << >>
  /\ \E k \in 1..Len(wire) :
       LET chunk == SubSeq(wire, 1, k)
           mine == Cardinality({i \in 1..k : chunk[i].x = xch})
       IN
       /\ rxbuf' = rxbuf \o chunk
       /\ wire' = SubSeq(wire, k + 1, Len(wire))
       /\ hist' = [hist EXCEPT !.intime =
                     IF Receiving /\ now - start <= BudgetTicks
                     THEN hist.intime + mine ELSE hist.intime]
  /\ UNCHANGED << rpc, now, start, result_code, length, data, rexc, xch >>
  /\ UNCHANGED << drvvars, call, devvars >>

\* the monotonic clock advances while a receive is pending
Clock_Tick ==
  /\ Receiving
  /\ now - start <= BudgetTicks
  /\ now' = now + 1
  /\ hist' = [hist EXCEPT !.overdue =
                hist.overdue \/ now + 1 - start > BudgetTicks]
  /\ UNCHANGED << rpc, rxbuf, wire, start, result_code, length, data, rexc,
                  xch >>
  /\ UNCHANGED << drvvars, call, devvars >>

NextRx ==
  \/ Rx_Begin
  \/ Rx_FlushRead
  \/ Rx_FlushExit
  \/ Rx_Write
  \/ Rx_WaitCode
  \/ Rx_WaitLen
  \/ Rx_ReadData
  \/ Chip_Deliver
  \/ Clock_Tick

SpecRx == Init /\ [][NextRx]_vars

(* ------------- byte level with a channel that does not pause ----------- *)
\* bytes a channel that keeps delivering puts into the drained buffer
NoiseBytes == { 0, 2 }

\* one more byte, belonging to no exchange, reaches the UART while
\* _flush_rx is draining
Chip_Noise ==
  /\ rpc = "flush"
  /\ rxbuf = << >>
  /\ \E b \in NoiseBytes : rxbuf' = << [b |-> b, x |-> 0, i |-> 0] >>
  /\ UNCHANGED << rpc, wire, now, start, result_code, length, data, rexc,
                  xch, hist >>
  /\ UNCHANGED << drvvars, call, devvars >>

\* the clock advances during the drain as well; _flush_rx never reads it,
\* so ticks past the budget are not told apart
Clock_TickDrain ==
  /\ rpc = "flush"
  /\ now - start <= BudgetTicks
  /\ now' = now + 1
  /\ UNCHANGED << rpc, rxbuf, wire, start, result_code, length, data, rexc,
                  xch, hist >>
  /\ UNCHANGED << drvvars, call, devvars >>

NextRxLive ==
  \/ NextRx
  \/ Chip_Noise
  \/ Clock_TickDrain

\* the interpreter keeps running the loop it is in and the monotonic clock
\* keeps advancing; the caller and the channel are under no obligation
RxFairness ==
  /\ WF_vars(Rx_FlushRead)
  /\ WF_vars(Rx_FlushExit)
  /\ WF_vars(Rx_Write)
  /\ WF_vars(Rx_WaitCode)
  /\ WF_vars(Rx_WaitLen)
  /\ WF_vars(Rx_ReadData)
  /\ WF_vars(Clock_Tick)
  /\ WF_vars(Clock_TickDrain)

SpecRxLive == Init /\ [][NextRxLive]_vars /\ RxFairness

(* ============================== properties ============================= *)
\* vocabulary of the properties, read off the chip's deliveries alone
Done == pc = "ready" /\ outcome # "none"
Sent(s) == obs[s].st # "unsent"
TimedOut(s) == obs[s].st = "timeout"
AnyTimeout == \E s \in TagSteps : TimedOut(s)
IsData(o, n) == o.st = "frame" /\ o.code = RSP_DATA /\ Len(o.data) >= n
IsAnticoll(o) == IsData(o, 5)
IsSelect(o) == IsData(o, 1)
Unusable(o, n) == o.st = "frame" /\ ~ (o.code = RSP_DATA /\ Len(o.data) >= n)
AtqaBytes ==
  IF IsAtqa(obs["wupa"]) THEN SubSeq(obs["wupa"].data, 1, 2)
  ELSE SubSeq(obs["reqa"].data, 1, 2)
AllZero(bs) == \A i \in 1..Len(bs) : bs[i] = 0
ReturnedNoTag == outcome = "returned" /\ ret = NoTag
ReturnedTag == outcome = "returned" /\ ~ IsNone(ret.uid)
Count(f) == Cardinality({i \in 1..Len(tx) : tx[i] = f})
\* select frames of one cascade level among the frames written
CountSelect(sel) ==
  Cardinality({i \in 1..Len(tx) :
                 /\ Len(tx[i]) >= 4
                 /\ tx[i][3] = sel
                 /\ tx[i][4] = ISO14443A_NVB_SELECT})
IsSel2Frame(f) == Len(f) >= 3 /\ f[3] = ISO14443A_SEL_CL2

\* C1: a read_tag call in which an exchange times out in receive returns
\* the no-tag result (None, None) and raises no error.
C1_TimeoutIsNoTag == (Done /\ AnyTimeout) => ReturnedNoTag

\* C2: when the chip answers every command of a read_tag call with a
\* complete frame and the frame of some step is unusable (a result code
\* other than 0x80, an ATQA shorter than 2 bytes from both WUPA and REQA,
\* an anticollision payload shorter than 5 bytes, an empty select payload),
\* the call returns (None, None) and raises nothing.
C2_UnusableFrameIsNoTag ==
  (/\ Done
   /\ ~ AnyTimeout
   /\ \/ Unusable(obs["wupa"], 2) /\ Unusable(obs["reqa"], 2)
      \/ Unusable(obs["anticoll_cl1"], 5)
      \/ Unusable(obs["select_cl1"], 1)
      \/ Unusable(obs["anticoll_cl2"], 5)
      \/ Unusable(obs["select_cl2"], 1))
  => (ReturnedNoTag /\ exc = NoExc)

C2_Witness ==
  /\ Done /\ ~ AnyTimeout /\ ReturnedNoTag
  /\ IsSelect(obs["select_cl1"])
  /\ obs["anticoll_cl2"].st = "frame"
  /\ obs["anticoll_cl2"].code = RSP_DATA
  /\ Len(obs["anticoll_cl2"].data) = 4

\* C3: with an ATQA, a level-1 anticollision result not starting with 0x88
\* and a level-1 select response of at least one byte, read_tag returns the
\* first 4 anticollision bytes as UID and the first select byte as SAK, and
\* sends no cascade-level-2 command.
C3_FourByteUid ==
  (/\ Done
   /\ IsAtqa(obs["wupa"]) \/ IsAtqa(obs["reqa"])
   /\ IsAnticoll(obs["anticoll_cl1"])
   /\ obs["anticoll_cl1"].data[1] # ISO14443A_CT
   /\ IsSelect(obs["select_cl1"]))
  => /\ outcome = "returned"
     /\ ret.uid = Some(SubSeq(obs["anticoll_cl1"].data, 1, 4))
     /\ ret.sak = Some(obs["select_cl1"].data[1])
     /\ ~ Sent("anticoll_cl2") /\ ~ Sent("select_cl2")
     /\ \A i \in 1..Len(tx) : ~ IsSel2Frame(tx[i])

C3_Witness ==
  /\ Done
  /\ obs["wupa"].data = << 4, 0 >> /\ IsAtqa(obs["wupa"])
  /\ obs["anticoll_cl1"].data = << 1, 2, 3, 4, 6 >>
  /\ obs["select_cl1"].data = << 8 >>
  /\ ret = [uid |-> Some(<< 1, 2, 3, 4 >>), sak |-> Some(8)]

\* C4: with an ATQA, a level-1 anticollision result starting with 0x88, a
\* level-1 select, a level-2 anticollision result and a level-2 select,
\* read_tag returns the 7-byte UID made of bytes 1..3 of the level-1 result
\* and bytes 0..3 of the level-2 result, with the level-2 SAK.
C4_SevenByteUid ==
  (/\ Done
   /\ IsAnticoll(obs["anticoll_cl1"])
   /\ obs["anticoll_cl1"].data[1] = ISO14443A_CT
   /\ IsSelect(obs["select_cl1"])
   /\ IsAnticoll(obs["anticoll_cl2"])
   /\ IsSelect(obs["select_cl2"]))
  => /\ outcome = "returned"
     /\ ret.uid = Some(SubSeq(obs["anticoll_cl1"].data, 2, 4)
                         \o SubSeq(obs["anticoll_cl2"].data, 1, 4))
     /\ Len(ret.uid[1]) = 7
     /\ ret.sak = Some(obs["select_cl2"].data[1])

C4_Witness ==
  /\ Done
  /\ obs["anticoll_cl1"].data = << 136, 17, 34, 51, 170 >>
  /\ obs["select_cl1"].data = << 32 >>
  /\ obs["anticoll_cl2"].data = << 68, 85, 102, 119, 187 >>
  /\ obs["select_cl2"].data = << 0 >>
  /\ ret = [uid |-> Some(<< 17, 34, 51, 68, 85, 102, 119 >>), sak |-> Some(0)]

\* C5: when the level-1 anticollision result starts with 0x88 and the
\* level-2 anticollision or the level-2 select fails (by an unusable frame
\* or by a timeout), read_tag returns no tag.
C5_Level2FailureIsNoTag ==
  (/\ Done
   /\ IsAnticoll(obs["anticoll_cl1"])
   /\ obs["anticoll_cl1"].data[1] = ISO14443A_CT
   /\ \/ Sent("anticoll_cl2") /\ ~ IsAnticoll(obs["anticoll_cl2"])
      \/ Sent("select_cl2") /\ ~ IsSelect(obs["select_cl2"]))
  => ReturnedNoTag

\* C6 as claimed: every value read_tag returns is (None, None) or a pair
\* with a UID of 4 or 7 bytes and a one-byte SAK, the UID None exactly when
\* the SAK is None, and a returned UID is never all-zero.
C6_NeverAllZero ==
  outcome = "returned" =>
    /\ IsNone(ret.uid) <=> IsNone(ret.sak)
    /\ ~ IsNone(ret.uid) =>
         /\ Len(ret.uid[1]) \in { 4, 7 }
         /\ ret.sak[1] \in 0..255
         /\ ~ AllZero(ret.uid[1])

\* C6 as amended: every value read_tag returns is (None, None) or a pair
\* with a UID of exactly 4 or 7 bytes and a one-byte SAK, the UID None
\* exactly when the SAK is None; a returned UID is never zero-length, and it
\* is all-zero only when the anticollision bytes it is built from were zero.
C6_ReturnShape ==
  outcome = "returned" =>
    /\ IsNone(ret.uid) <=> IsNone(ret.sak)
    /\ ~ IsNone(ret.uid) =>
         /\ Len(ret.uid[1]) \in { 4, 7 }
         /\ \A i \in 1..Len(ret.uid[1]) : ret.uid[1][i] \in 0..255
         /\ ret.sak[1] \in 0..255
         /\ AllZero(ret.uid[1]) =>
              \/ /\ Len(ret.uid[1]) = 4
                 /\ AllZero(SubSeq(obs["anticoll_cl1"].data, 1, 4))
              \/ /\ Len(ret.uid[1]) = 7
                 /\ AllZero(SubSeq(obs["anticoll_cl1"].data, 2, 4))
                 /\ AllZero(SubSeq(obs["anticoll_cl2"].data, 1, 4))

C6_Witness ==
  /\ Done /\ ReturnedTag
  /\ ret.uid = Some(<< 0, 0, 0, 0, 0, 0, 0 >>)
  /\ obs["anticoll_cl1"].data = << 136, 0, 0, 0, 136 >>

\* C7: within one read_tag call WUPA is sent first, REQA is sent if and only
\* if WUPA yielded no ATQA, every other command is sent at most once, and a
\* later step's command is sent only if every earlier step succeeded.
C7_CommandOrder ==
  /\ (pc \in TagSteps \/ Done) /\ Len(tx) >= 1
       => tx[1] = ReqaWupaFrame(ISO14443A_WUPA)
  /\ Done => (Sent("reqa") <=> ~ IsAtqa(obs["wupa"]))
  /\ (pc \in TagSteps \/ Done) =>
       /\ Count(ReqaWupaFrame(ISO14443A_WUPA)) <= 1
       /\ Count(ReqaWupaFrame(ISO14443A_REQA)) <= 1
       /\ Count(AnticollCl1Frame) <= 1
       /\ Count(AnticollCl2Frame) <= 1
       /\ CountSelect(ISO14443A_SEL_CL1) <= 1
       /\ CountSelect(ISO14443A_SEL_CL2) <= 1
       /\ Sent("anticoll_cl1") => IsAtqa(obs["wupa"]) \/ IsAtqa(obs["reqa"])
       /\ Sent("select_cl1") => IsAnticoll(obs["anticoll_cl1"])
       /\ Sent("anticoll_cl2") => IsSelect(obs["select_cl1"])
       /\ Sent("select_cl2") => IsAnticoll(obs["anticoll_cl2"])

\* C8: once a read_tag call has received an ATQA, last_atqa equals exactly
\* its 2 bytes, whether the call then returns a tag, returns no tag, or
\* raises in a later step.
C8_LastAtqaKept ==
  (IsAtqa(obs["wupa"]) \/ IsAtqa(obs["reqa"])) => last_atqa = AtqaBytes

C8_Witness ==
  /\ Done /\ outcome = "raised"
  /\ IsAtqa(obs["reqa"])
  /\ entry.last_atqa = << 4, 0 >>
  /\ last_atqa = << 68, 0 >>

\* C9: a read_tag call in which neither WUPA nor REQA yields an ATQA leaves
\* last_atqa and device_name as they were, and two such consecutive calls
\* produce the same no-tag outcome.
C9_NoAtqaNoChange ==
  (Done /\ NoAtqaSeen) =>
    /\ last_atqa = entry.last_atqa
    /\ device_name = entry.device_name
    /\ ReturnedNoTag
    /\ prev.noAtqa => (prev.outcome = outcome /\ prev.ret = ret)

\* C10: bring-up writes its commands in the order wake, echo, identify,
\* protocol select; the identification command only after the echo
\* succeeded, the protocol-select command only after a valid identification
\* response; after a failed echo neither is ever written.
InBringUp ==
  pc \in { "new", "echo", "idn", "protocol", "failed" }
    \/ (pc = "ready" /\ outcome = "none" /\ Count(FieldOffFrame) = 0)
EchoOk == obs["echo"].st = "frame" /\ obs["echo"].code = CMD_ECHO
IdnOk ==
  /\ obs["idn"].st = "frame"
  /\ obs["idn"].code = RSP_SUCCESS
  /\ Len(obs["idn"].data) >= IdnMinLen

C10_BringUpOrder ==
  InBringUp =>
    /\ \A i \in 1..Len(tx) :
         /\ tx[i] = EchoFrame => \A j \in 1..(i - 1) : tx[j] = WakeBytes
         /\ tx[i] = IdnFrame =>
              EchoOk /\ i > 1 /\ tx[i - 1] = EchoFrame
         /\ tx[i] = ProtocolFrame =>
              EchoOk /\ IdnOk /\ i > 1 /\ tx[i - 1] = IdnFrame
    /\ (Sent("echo") /\ ~ EchoOk) =>
         /\ pc = "failed"
         /\ \A i \in 1..Len(tx) : tx[i] # IdnFrame /\ tx[i] # ProtocolFrame

C10_Witness ==
  /\ pc = "ready" /\ outcome = "none"
  /\ tx = << WakeBytes, WakeBytes, EchoFrame, IdnFrame, ProtocolFrame >>


\* C11: any bring-up fault (echo mismatch or silence, a receive timeout in
\* identify or protocol select, an invalid identification response, a
\* protocol-select result other than 0x00) aborts construction: an
\* initialization error is raised, no driver instance is ever usable, and
\* no phase is retried.
ProtocolOk == obs["protocol"].st = "frame" /\ obs["protocol"].code = RSP_SUCCESS
BringUpFault ==
  \/ Sent("echo") /\ ~ EchoOk
  \/ Sent("idn") /\ ~ IdnOk
  \/ Sent("protocol") /\ ~ ProtocolOk

WellFormed(f) == Len(f) >= 2 /\ Len(f) >= 2 + f[2]
FrameLen(f) == 2 + f[2]
\* the exchange started with nothing of an earlier exchange pending, and
\* the whole frame reached the UART before the budget was exceeded
CleanInTime ==
  /\ xch > 0
  /\ hist.resp # << >>
  /\ ~ hist.dirty
  /\ WellFormed(hist.resp)
  /\ hist.intime >= FrameLen(hist.resp)

(* C12: when the whole response frame [result, length, payload] reaches the
   UART within the timeout budget, in whatever chunks, and the channel held
   nothing else when the command was written, _read_response does not raise,
   consumes the frame's bytes in order, and returns exactly (result, payload). *)
C12_ExactFrame ==
  CleanInTime =>
    /\ rpc # "raised"
    /\ hist.read = SubSeq(Tagged(hist.resp, xch), 1, Len(hist.read))
    /\ rpc = "returned" =>
         /\ result_code = hist.resp[1]
         /\ data = SubSeq(hist.resp, 3, FrameLen(hist.resp))

\* a two-byte payload that arrived while the clock advanced and is returned
\* whole, the byte that followed the frame left in the buffer or on the wire
C12_Witness ==
  /\ CleanInTime
  /\ rpc = "returned"
  /\ hist.resp = Frame(RSP_DATA, << 7 >>) \o << 99 >>
  /\ now > start
  /\ result_code = RSP_DATA /\ data = << 7 >>
  /\ Len(rxbuf) + Len(wire) = 1

(* C13: each of the three waits of _read_response raises its own timeout
   message, the payload one reporting the bytes received and the bytes
   expected, and a normal return carries exactly as many payload bytes as
   the length byte announced. *)
C13_TimeoutsAndLength ==
  /\ rpc = "raised" =>
       /\ Len(hist.read) = 0 =>
            rexc = [msg |-> "Timeout waiting for result code",
                    got |-> 0, expected |-> 0]
       /\ Len(hist.read) = 1 =>
            rexc = [msg |-> "Timeout waiting for length byte",
                    got |-> 0, expected |-> 0]
       /\ Len(hist.read) >= 2 =>
            /\ rexc = [msg |-> "Timeout reading data",
                       got |-> Len(hist.read) - 2, expected |-> hist.read[2].b]
            /\ rexc.got = Len(data) /\ rexc.got < rexc.expected
  /\ rpc = "returned" =>
       /\ Len(hist.read) >= 2
       /\ length = hist.read[2].b
       /\ Len(data) = length
       /\ data = Bytes(SubSeq(hist.read, 3, Len(hist.read)))

\* one payload byte of two was received when the budget ran out
C13_Witness ==
  /\ rpc = "raised"
  /\ rexc = [msg |-> "Timeout reading data", got |-> 1, expected |-> 2]
  /\ data = << 7 >>

(* C18: no exchange consumes, as result code, length or payload, a byte of
   the response to an earlier exchange whose receive timed out, whenever
   that byte arrives. *)
C18_AbandonedNeverUsed ==
  \A i \in 1..Len(hist.read) : hist.read[i].x \notin hist.abandoned

(* C20: _read_response never returns normally once the elapsed time has
   exceeded the budget while one of its waits was pending. *)
C20_NoReturnPastBudget ==
  rpc = "returned" => ~ hist.overdue

(* C20, as the code has it: one budget runs from call entry through the
   three waits; the call raises exactly when a poll finds no byte buffered
   with the budget exceeded, and reads bytes that are buffered whatever the
   elapsed time. *)
C20_EmptyPastBudgetRaises ==
  /\ hist.emptyLate => rpc = "raised"
  /\ rpc = "raised" => hist.emptyLate /\ now - start > BudgetTicks
  /\ Receiving => ~ hist.emptyLate

\* the length wait raises on the budget that began at call entry: the
\* result code was read after the clock had already advanced
C20_Witness ==
  /\ rpc = "raised"
  /\ rexc.msg = "Timeout waiting for length byte"
  /\ hist.emptyLate
  /\ hist.intime = 1
  /\ now - start = BudgetTicks + 1

(* C14: every exchange a driver operation starts comes to an end, by a
   return or a raise, whatever the channel does while the interpreter runs
   and the clock advances. *)
C14_EveryExchangeEnds ==
  (rpc = "flush") ~> (rpc \in { "returned", "raised" })

(* ------------------------------ other calls ---------------------------- *)
MappedSaks == { e[1] : e \in card_types }
UpperHex == { HexDigits[i] : i \in 1..Len(HexDigits) }
\* the value of an upper-case hexadecimal digit
HexValue(c) == (CHOOSE i \in 1..Len(HexDigits) : HexDigits[i] = c) - 1
CardTypeCalled == call.op = "card_type"

(* C15: card_type gives a label for every SAK 0..255: the table's label for
   each of the 11 mapped codes, and for any other value a label that embeds
   the SAK as two upper-case hexadecimal digits which read back as the SAK;
   the call writes nothing and changes no driver state. *)
C15_CardTypeTotal ==
  /\ [](CardTypeCalled =>
          /\ call.arg \in SakValues
          /\ call.arg = 0 => call.str = "MIFARE Ultralight/NTAG"
          /\ call.arg = 8 => call.str = "MIFARE Classic 1K"
          /\ call.arg = 9 => call.str = "MIFARE Mini"
          /\ call.arg = 16 => call.str = "MIFARE Plus 2K"
          /\ call.arg = 17 => call.str = "MIFARE Plus 4K"
          /\ call.arg = 24 => call.str = "MIFARE Classic 4K"
          /\ call.arg = 32 => call.str = "MIFARE Plus/DESFire"
          /\ call.arg = 40 => call.str = "JCOP/SmartMX"
          /\ call.arg = 56 => call.str = "MIFARE Classic 4K (emu)"
          /\ call.arg = 136 => call.str = "MIFARE Classic 1K (Infineon)"
          /\ call.arg = 152 => call.str = "MIFARE ProX"
          /\ call.arg \notin { 0, 8, 9, 16, 17, 24, 32, 40, 56, 136, 152 } =>
               \E hi \in UpperHex, lo \in UpperHex :
                 /\ call.str = "Unknown (SAK=0x" \o hi \o lo \o ")"
                 /\ 16 * HexValue(hi) + HexValue(lo) = call.arg)
  /\ [][call'.op = "card_type" => UNCHANGED << drvvars, rxvars >>]_vars

\* the unmapped SAK 0xF0 has been classified
C15_Witness ==
  /\ CardTypeCalled
  /\ call.arg = 240
  /\ call.str = "Unknown (SAK=0xF0)"
  /\ pc = "ready" /\ tx # << >>

FieldOffCalled == call.op = "field_off"

(* C16: field_off writes the frame 02 02 00 00, reads the response and
   completes normally whatever the response is, also when none arrives
   within the timeout. *)
C16_FieldOffCompletes ==
  FieldOffCalled =>
    /\ tx = << << 2, 2, 0, 0 >> >>
    /\ call.str = "returned"
    /\ exc = NoExc

\* after construction: the driver is constructed and no bring-up step or
\* read_tag exchange is under way
Constructed == pc \notin { "new", "echo", "idn", "protocol", "failed" }
InReadTag == pc \in TagSteps

(* C17: after construction no call changes the device name, only read_tag
   changes last_atqa, and the two properties give back the stored values. *)
C17_IdentityFixed ==
  /\ [](call.op = "device_name" => call.bytes = device_name)
  /\ [](call.op = "last_atqa" => call.bytes = last_atqa)
  /\ [][/\ Constructed => device_name' = device_name
        /\ last_atqa' # last_atqa => InReadTag]_vars

\* the name is read after a read_tag call that replaced last_atqa
C17_Witness ==
  /\ call.op = "device_name"
  /\ call.bytes = DeviceName(IdnPayload)
  /\ outcome = "returned"
  /\ last_atqa # entry.last_atqa
  /\ entry.device_name = device_name

\* the level-1 anticollision answer began with the cascade tag
CascadeSeen ==
  /\ IsAnticoll(obs["anticoll_cl1"])
  /\ obs["anticoll_cl1"].data[1] = ISO14443A_CT
Exchanges == Len(tx)

(* C19: every read_tag call that returns has performed between 4 and 6
   exchanges with the chip (calls ended by an escaping timeout set aside). *)
C19_FourToSix ==
  Done /\ outcome = "returned" => Exchanges \in 4..6

(* C19, as the code has it: a finished read_tag call has performed between
   1 and 6 exchanges, each one command written and one response awaited:
   2 when neither WUPA nor REQA is answered with an ATQA, 3 or 4 when a
   4-byte UID is returned, 5 or 6 when a 7-byte UID is returned, and 1 only
   when the WUPA receive timed out. *)
C19_OneToSix ==
  Done =>
    /\ Exchanges = Cardinality({s \in TagSteps : Sent(s)})
    /\ Exchanges \in 1..6
    /\ Exchanges = 1 => TimedOut("wupa")
    /\ outcome = "returned" /\ NoAtqaSeen => Exchanges = 2
    /\ ReturnedTag /\ ~ CascadeSeen =>
         Exchanges \in { 3, 4 } /\ Len(ret.uid[1]) = 4
    /\ ReturnedTag /\ CascadeSeen =>
         Exchanges \in { 5, 6 } /\ Len(ret.uid[1]) = 7

\* a 4-byte UID found at the first wake-up: three exchanges
C19_Witness ==
  /\ Done /\ ReturnedTag
  /\ Exchanges = 3
  /\ Len(ret.uid[1]) = 4

(* ------------------------ read_tag: frames and steps ------------------- *)
\* a read_tag call is under way or has ended
InReadTagCall == pc \in TagSteps \/ Done
\* the level-1 select answered with a SAK
Sak1Seen == IsSelect(obs["select_cl1"])
Sak1 == obs["select_cl1"].data[1]
\* bit 2 of a SAK: the ISO14443-A "UID not complete" bit
CascadeBit(sak) == (sak \div 4) % 2 = 1

(* C21: once level 1 has given a SAK, read_tag goes on to level 2 exactly
   when the level-1 anticollision block began with 0x88, whatever the SAK
   (its cascade bit included): the commands that follow and the length of a
   returned UID are decided by that byte alone. *)
C21_CascadeBySentinelOnly ==
  InReadTagCall /\ Sak1Seen =>
    /\ (pc = "anticoll_cl2" \/ Sent("anticoll_cl2")) <=> CascadeSeen
    /\ ~ CascadeSeen =>
         /\ ReturnedTag /\ Exchanges \in { 3, 4 }
         /\ Len(ret.uid[1]) = 4
         /\ ret.sak = Some(Sak1)
    /\ CascadeSeen /\ ReturnedTag => Len(ret.uid[1]) = 7

\* a SAK with the cascade bit set, a block without the cascade tag: the
\* call ends at level 1 with a 4-byte UID
C21_Witness ==
  /\ Done /\ ReturnedTag
  /\ Sak1Seen /\ CascadeBit(Sak1)
  /\ ~ CascadeSeen
  /\ Len(ret.uid[1]) = 4
  /\ ~ Sent("anticoll_cl2")

\* a 'data follows' anticollision answer whose payload is not 5 bytes long
NotFiveBytes(o) == o.st = "frame" /\ o.code = RSP_DATA /\ Len(o.data) # 5

(* C22: an anticollision answer (level 1 or 2) with a 'data follows' code
   and a payload of any length other than 5 makes read_tag return no tag. *)
C22_ExactlyFive ==
  Done /\ outcome = "returned" =>
    /\ NotFiveBytes(obs["anticoll_cl1"]) => ReturnedNoTag
    /\ NotFiveBytes(obs["anticoll_cl2"]) => ReturnedNoTag

(* C22, as the code has it: an anticollision answer is accepted exactly
   when it is 'data follows' with 5 payload bytes or more; the first 5 are
   the block and the rest is dropped; any other answer that arrives ends
   the call with no tag. *)
C22_AtLeastFive ==
  InReadTagCall =>
    /\ Sent("anticoll_cl1") /\ ~ TimedOut("anticoll_cl1") =>
         IF IsAnticoll(obs["anticoll_cl1"])
         THEN /\ cl1 = Some(SubSeq(obs["anticoll_cl1"].data, 1, 5))
              /\ pc = "select_cl1" \/ Sent("select_cl1")
         ELSE ReturnedNoTag /\ ~ Sent("select_cl1")
    /\ Sent("anticoll_cl2") /\ ~ TimedOut("anticoll_cl2") =>
         IF IsAnticoll(obs["anticoll_cl2"])
         THEN /\ cl2 = Some(SubSeq(obs["anticoll_cl2"].data, 1, 5))
              /\ pc = "select_cl2" \/ Sent("select_cl2")
         ELSE ReturnedNoTag /\ ~ Sent("select_cl2")

\* a 6-byte block at level 1: its first four bytes come back as the UID
C22_Witness ==
  /\ Done /\ ReturnedTag
  /\ Len(obs["anticoll_cl1"].data) = 6
  /\ ret.uid = Some(SubSeq(obs["anticoll_cl1"].data, 1, 4))

\* the frames written by the call so far that begin a select at one level
SelectFrames(sel) ==
  { i \in 1..Len(tx) :
      Len(tx[i]) >= 4 /\ tx[i][3] = sel /\ tx[i][4] = ISO14443A_NVB_SELECT }
\* the select frame holding block b: 04, length 8, code, 0x70, b, flag 0x28
IsSelectOf(f, sel, b) ==
  f = << 4, 8, sel, 112 >> \o b \o << 40 >>
\* the check byte of a 5-byte block is the XOR of its first four bytes;
\* for the sample blocks: 1^2^3^4 = 4, 0x88^0x11^0x22^0x33 = 0x88
BadBccBlocks == { << 1, 2, 3, 4, 6 >>, << 136, 17, 34, 51, 170 >> }

(* C23: the select written at level L is 0x93 (level 1) or 0x95 (level 2),
   NVB 0x70, then the first 5 bytes the anticollision of the same level
   gave in the same call, unchanged and in order; a block whose check byte
   is wrong is sent all the same. *)
C23_SelectEchoesBlock ==
  InReadTagCall =>
    /\ Sent("select_cl1") =>
         /\ Cardinality(SelectFrames(147)) = 1
         /\ \A i \in SelectFrames(147) :
              IsSelectOf(tx[i], 147, SubSeq(obs["anticoll_cl1"].data, 1, 5))
    /\ Sent("select_cl2") =>
         /\ Cardinality(SelectFrames(149)) = 1
         /\ \A i \in SelectFrames(149) :
              IsSelectOf(tx[i], 149, SubSeq(obs["anticoll_cl2"].data, 1, 5))
    /\ ~ Sent("select_cl1") => SelectFrames(147) = { }
    /\ ~ Sent("select_cl2") => SelectFrames(149) = { }

\* both levels selected with blocks whose check bytes are wrong
C23_Witness ==
  /\ InReadTagCall
  /\ Sent("select_cl1") /\ Sent("select_cl2")
  /\ obs["anticoll_cl1"].data \in BadBccBlocks
  /\ obs["anticoll_cl2"].data \in BadBccBlocks
  /\ tx[Len(tx)] = << 4, 8, 149, 112, 1, 2, 3, 4, 6, 40 >>

\* the framing flag a send-and-receive payload must end with
FlagOf(f) ==
  IF f[3] \in { 82, 38 } THEN 7
  ELSE IF f[4] = 32 THEN 8
  ELSE 40
\* the shapes of the RF payloads read_tag sends: a one-byte request, an
\* anticollision (code, NVB 0x20), a select (code, NVB 0x70, 5-byte block)
IsRfStep(f) ==
  \/ f[3] \in { 82, 38 } /\ Len(f) = 4
  \/ f[3] \in { 147, 149 } /\ f[4] = 32 /\ Len(f) = 5
  \/ f[3] \in { 147, 149 } /\ f[4] = 112 /\ Len(f) = 10

(* C24: every frame read_tag writes is the command 0x04 with a length byte
   that counts the whole payload, the payload ending with the flag of its
   step: 0x07 after WUPA or REQA, 0x08 after an anticollision, 0x28 after a
   select. *)
C24_FlagIsLastByte ==
  InReadTagCall =>
    \A i \in 1..Len(tx) :
      /\ Len(tx[i]) >= 4
      /\ tx[i][1] = 4
      /\ tx[i][2] = Len(tx[i]) - 2
      /\ IsRfStep(tx[i])
      /\ tx[i][Len(tx[i])] = FlagOf(tx[i])

\* a call that wrote all six commands: WUPA, REQA, both anticollisions and
\* both selects
C24_Witness ==
  /\ Done /\ Exchanges = 6
  /\ tx[1] = << 4, 2, 82, 7 >>
  /\ tx[2] = << 4, 2, 38, 7 >>
  /\ tx[3] = << 4, 3, 147, 32, 8 >>
  /\ tx[5] = << 4, 3, 149, 32, 8 >>
  /\ tx[6][Len(tx[6])] = 40

SendCmdCalled == call.op = "_send_cmd"

(* C25: for every command code and payload, _send_cmd writes the command,
   then the payload's byte count, then the payload byte for byte; a 0x00 in
   the payload is written like any other byte and ends nothing. *)
C25_LengthIsByteCount ==
  SendCmdCalled =>
    /\ tx = << call.out >>
    /\ Len(call.out) = 2 + Len(call.bytes)
    /\ call.out[1] = call.arg
    /\ call.out[2] = Len(call.bytes)
    /\ \A i \in 1..Len(call.bytes) : call.out[2 + i] = call.bytes[i]

\* a payload that begins and ends with a null byte is written whole
C25_Witness ==
  /\ SendCmdCalled
  /\ call.arg = CMD_SENDRECV
  /\ call.bytes = << 0, 7, 0 >>
  /\ tx = << << 4, 3, 0, 7, 0 >> >>

\* a frame of the form [command][length][payload of that length]
IsRequestFrame(f) == Len(f) >= 2 /\ f[2] = Len(f) - 2
IsWakeBurst(f) == Len(f) = 20 /\ \A k \in 1..Len(f) : f[k] = 0

(* C26: every command written after the wake burst, the echo included, is
   a frame [command][length][payload]. *)
C26_AllFramed ==
  \A i \in 1..Len(tx) : ~ IsWakeBurst(tx[i]) => IsRequestFrame(tx[i])

(* C26, as the code has it: identify (0x01), protocol-select (0x02) and
   send-and-receive (0x04) are written as [command][length][payload]; the
   echo is the single byte 0x55, with no length byte. *)
C26_FramedExceptEcho ==
  \A i \in 1..Len(tx) :
    \/ IsWakeBurst(tx[i])
    \/ tx[i] = << 85 >>
    \/ IsRequestFrame(tx[i]) /\ tx[i][1] \in { 1, 2, 4 }

\* bring-up has written the bare echo byte and the two framed commands
C26_Witness ==
  /\ pc = "ready"
  /\ Len(tx) >= 3
  /\ tx[Len(tx) - 2] = << 85 >>
  /\ tx[Len(tx) - 1] = << 1, 0 >>
  /\ tx[Len(tx)] = << 2, 2, 2, 0 >>

(* C27: _send_cmd drains before it writes and waits for nothing after the
   write: no byte that was buffered when the drain began is left in the
   buffer once the drain has ended, and none is read as part of the
   response; the chip answers only after the write. *)
C27_DrainBeforeWrite ==
  /\ rpc \in { "flush", "write" } => hist.resp = << >> /\ hist.read = << >>
  /\ rpc \notin { "idle", "flush" } => IdsOf(rxbuf) \cap hist.stale = { }
  /\ IdsOf(hist.read) \cap hist.stale = { }

\* two bytes of the first response were buffered when the second exchange
\* began; they were drained and the second response is returned whole
C27_Witness ==
  /\ xch = 2 /\ rpc = "returned"
  /\ Cardinality(hist.stale) = 2
  /\ hist.resp = Frame(RSP_DATA, << 7, 9 >>)
  /\ hist.read = Tagged(hist.resp, xch)
  /\ data = << 7, 9 >>

\* the echo step let bring-up go on to the identification
EchoPassed == pc = "idn" \/ Sent("idn")

(* C28: the echo test passes exactly when the first byte received in its
   100 ms is 0x55; another first byte fails at once, whatever follows it,
   and no byte at all fails as 'no response'. *)
C28_EchoFirstByte ==
  Sent("echo") =>
    /\ EchoPassed <=> (obs["echo"].st = "frame" /\ obs["echo"].code = 85)
    /\ obs["echo"].st = "frame" /\ obs["echo"].code # 85 =>
         /\ pc = "failed"
         /\ \E hi \in UpperHex, lo \in UpperHex :
              /\ 16 * HexValue(hi) + HexValue(lo) = obs["echo"].code
              /\ exc = OSError("CR95HF initialization failed: Echo test failed: expected 0x55, got 0x"
                                \o hi \o lo)
    /\ obs["echo"].st = "timeout" =>
         /\ pc = "failed"
         /\ exc = OSError("CR95HF initialization failed: Echo test failed: no response from device")
    /\ ~ EchoPassed => tx[Len(tx)] = << 85 >>

\* the first byte is 0x00: the test fails with 'expected 0x55' and nothing
\* more is written
C28_Witness ==
  /\ pc = "failed"
  /\ obs["echo"].st = "frame" /\ obs["echo"].code = 0
  /\ exc.msg = "CR95HF initialization failed: Echo test failed: expected 0x55, got 0x00"
  /\ tx[Len(tx)] = << 85 >>

\* the identification step let bring-up go on to protocol selection
IdnPassed == pc = "protocol" \/ Sent("protocol")

(* C29: the identification step fails exactly when its response times out,
   carries a result code other than 0x00, or has fewer than 13 payload
   bytes; a 0x00 response with 13 payload bytes or more always goes on to
   protocol selection. *)
C29_IdnFailsIff ==
  Sent("idn") =>
    /\ IdnPassed <=>
         /\ obs["idn"].st = "frame"
         /\ obs["idn"].code = 0
         /\ Len(obs["idn"].data) >= 13
    /\ ~ IdnPassed =>
         /\ pc = "failed"
         /\ exc = OSError(IF obs["idn"].st = "timeout"
                          THEN "Failed to read device ID"
                          ELSE "Invalid IDN response")
         /\ tx[Len(tx)] = << 1, 0 >>

\* 15 payload bytes under the result code 0x80: the step fails
C29_Witness ==
  /\ pc = "failed"
  /\ obs["idn"].st = "frame"
  /\ obs["idn"].code = 128
  /\ Len(obs["idn"].data) = 15
  /\ exc = OSError("Invalid IDN response")

IsPrintable(b) == 32 <= b /\ b <= 126
\* the position of the first null byte of w, or one past its end
FirstNull(w) ==
  IF \E k \in 1..Len(w) : w[k] = 0
  THEN CHOOSE k \in 1..Len(w) : w[k] = 0 /\ \A j \in 1..(k - 1) : w[j] # 0
  ELSE Len(w) + 1
BeforeNull(w) == SubSeq(w, 1, FirstNull(w) - 1)
IdnData == obs["idn"].data

(* C30: after the identification has passed, device_name is exactly the
   payload bytes that precede the payload's first null byte, in order, and
   all of them are printable (32..126). *)
C30_PrefixToNull ==
  IdnPassed =>
    /\ device_name = BeforeNull(IdnData)
    /\ \A k \in 1..Len(device_name) : IsPrintable(device_name[k])

(* C30, as the code has it: device_name is made from the first 13 payload
   bytes only: the bytes that precede the first null among them (all 13 if
   none is null), in order, with every byte outside 32..126 left out. *)
C30_PrintableOfFirst13 ==
  IdnPassed =>
    /\ device_name = SelectSeq(BeforeNull(SubSeq(IdnData, 1, 13)), IsPrintable)
    /\ \A k \in 1..Len(device_name) : IsPrintable(device_name[k])
    /\ Len(device_name) <= 13

\* a control byte before the first null is left out of the name
C30_Witness ==
  /\ IdnPassed
  /\ IdnData = IdnPayloadOdd
  /\ BeforeNull(IdnData) = << 78, 7, 70 >>
  /\ device_name = << 78, 70 >>

\* the frame, if any, that a step has just written
Wrote(f) == tx' # tx /\ tx' # << >> /\ tx'[Len(tx')] = f
WroteCommand(c) == tx' # tx /\ tx' # << >> /\ tx'[Len(tx')][1] = c

(* C35: read_tag writes only send-and-receive (0x04) frames, never an echo,
   an identify or a protocol-select; the protocol-select frames ever written
   are the one of bring-up and the 'off' frame of field_off, so a read_tag
   after field_off does not select ISO14443-A again. *)
C35_ReadTagOnlySendRecv ==
  /\ [](InReadTagCall =>
          \A i \in 1..Len(tx) :
            /\ tx[i][1] = 4
            /\ tx[i] \notin { << 85 >>, << 1, 0 >>, << 2, 2, 2, 0 >>,
                              << 2, 2, 0, 0 >> })
  /\ [][/\ pc \in TagSteps =>
             tx' = Append(tx, tx'[Len(tx')]) /\ WroteCommand(4)
        /\ WroteCommand(2) =>
             \/ pc = "protocol" /\ Wrote(<< 2, 2, 2, 0 >>)
             \/ pc = "ready" /\ call'.op = "field_off"
                  /\ Wrote(<< 2, 2, 0, 0 >>)]_vars

\* a read_tag call made right after field_off has found a tag
C35_Witness ==
  /\ Done /\ ReturnedTag
  /\ entry.after_off
  /\ Exchanges >= 3

\* the responses of the current read_tag call, in the order received
StepOrder ==
  << "wupa", "reqa", "anticoll_cl1", "select_cl1", "anticoll_cl2",
     "select_cl2" >>
RECURSIVE ResponsesFrom(_)
ResponsesFrom(i) ==
  IF i > Len(StepOrder) THEN << >>
  ELSE IF Sent(StepOrder[i])
  THEN << obs[StepOrder[i]] >> \o ResponsesFrom(i + 1)
  ELSE ResponsesFrom(i + 1)
Responses == ResponsesFrom(1)

\* read_tag replayed from a sequence of responses alone: the frames written,
\* how the call ends and the value returned; s is the step about to be
\* taken, b1 and b2 the anticollision blocks answered so far
RECURSIVE Replay(_, _, _, _, _)
Replay(s, rs, sent, b1, b2) ==
  IF rs = << >>
  THEN [tx |-> sent, at |-> s, outcome |-> "none", ret |-> NoTag]
  ELSE
  LET o == Head(rs)
      f == CASE s = "wupa" -> ReqaWupaFrame(ISO14443A_WUPA)
             [] s = "reqa" -> ReqaWupaFrame(ISO14443A_REQA)
             [] s = "anticoll_cl1" -> AnticollCl1Frame
             [] s = "select_cl1" -> SelectCl1Frame(b1)
             [] s = "anticoll_cl2" -> AnticollCl2Frame
             [] s = "select_cl2" -> SelectCl2Frame(b2)
      w == Append(sent, f)
      End(oc, v) == [tx |-> w, at |-> "ready", outcome |-> oc, ret |-> v]
      blk == SubSeq(o.data, 1, 5)
  IN
  IF o.st = "timeout" THEN End("raised", NoTag)
  ELSE CASE s = "wupa" ->
              IF IsAtqa(o) THEN Replay("anticoll_cl1", Tail(rs), w, b1, b2)
              ELSE Replay("reqa", Tail(rs), w, b1, b2)
         [] s = "reqa" ->
              IF IsAtqa(o) THEN Replay("anticoll_cl1", Tail(rs), w, b1, b2)
              ELSE End("returned", NoTag)
         [] s = "anticoll_cl1" ->
              IF IsAnticoll(o) THEN Replay("select_cl1", Tail(rs), w, blk, b2)
              ELSE End("returned", NoTag)
         [] s = "select_cl1" ->
              IF ~ IsSelect(o) THEN End("returned", NoTag)
              ELSE IF b1[1] # ISO14443A_CT
              THEN End("returned", [uid |-> Some(SubSeq(b1, 1, 4)),
                                    sak |-> Some(o.data[1])])
              ELSE Replay("anticoll_cl2", Tail(rs), w, b1, b2)
         [] s = "anticoll_cl2" ->
              IF IsAnticoll(o) THEN Replay("select_cl2", Tail(rs), w, b1, blk)
              ELSE End("returned", NoTag)
         [] s = "select_cl2" ->
              IF ~ IsSelect(o) THEN End("returned", NoTag)
              ELSE End("returned",
                       [uid |-> Some(SubSeq(b1, 2, 4) \o SubSeq(b2, 1, 4)),
                        sak |-> Some(o.data[1])])
Replayed == Replay("wupa", Responses, << >>, << >>, << >>)

(* C32: the frames a read_tag call writes, the way it ends and the value it
   returns are those obtained by replaying the responses received during
   that call alone; nothing of an earlier call (last_atqa on entry, earlier
   results, calls made in between) enters. *)
C32_FunctionOfResponses ==
  InReadTagCall =>
    /\ tx = Replayed.tx
    /\ pc = Replayed.at
    /\ outcome = Replayed.outcome
    /\ ret = Replayed.ret

\* a call whose two requests went unanswered, made after a call that ended
\* the same way, on a driver whose last_atqa an earlier tag has set
C32_Witness ==
  /\ Done /\ ReturnedNoTag
  /\ Responses = << [st |-> "frame", code |-> RSP_TIMEOUT, data |-> << >>],
                    [st |-> "frame", code |-> RSP_TIMEOUT, data |-> << >>] >>
  /\ entry.last_atqa # << 0, 0 >>
  /\ prev.noAtqa /\ prev.outcome = "returned"

\* bytes a step of the receive has taken out of the UART buffer
Consumed == Len(hist'.read) - Len(hist.read)

(* C34: _read_response never consumes bytes beyond its own frame: the
   payload gathered never exceeds the announced length, a read takes one
   byte for the code, one for the length and at most the bytes still missing
   for the payload, bytes pass from the buffer to the call in order with none
   skipped or dropped, and on return exactly 2 + length bytes were taken, so
   whatever follows the frame is still buffered or in flight. *)
C34_NeverBeyondFrame ==
  /\ [](Len(data) <= length)
  /\ [](rpc = "returned" =>
          /\ Len(hist.read) = 2 + length
          /\ Bytes(hist.read) = << result_code, length >> \o data)
  /\ [][Receiving =>
          /\ hist'.read \o rxbuf' \o wire' = hist.read \o rxbuf \o wire
          /\ rpc \in { "wait_code", "wait_len" } => Consumed <= 1
          /\ rpc = "read_data" => Consumed <= length - Len(data)]_vars

\* a one-byte frame followed by one more byte, all buffered before the
\* payload is read: the call has returned and the extra byte is still there
C34_Witness ==
  /\ rpc = "returned"
  /\ hist.resp = Frame(RSP_DATA, << 7 >>) \o << 99 >>
  /\ data = << 7 >>
  /\ wire = << >>
  /\ rxbuf = << [b |-> 99, x |-> xch, i |-> 4] >>

(* ---------------- bring-up at byte level: wake and echo ---------------- *)
\* wake_pulse_ms and the 0.1 s echo window, in clock ticks
WakePulseTicks == 2
EchoTicks == 2
\* bytes the chip may emit on its own while it wakes up and settles
MaxGarbage == 2
GarbageBytes == { 0, CMD_ECHO }
\* what the chip may answer to the echo command
EchoReplies == { << >>, << CMD_ECHO >>, << 0 >> }

FlushPhases == { "init_flush", "settle_flush", "echo_flush" }
EchoEnded == rpc \in { "echo_ok", "echo_fail" }

\* what the wake and echo steps leave alone
wakefix == << pc, device_name, last_atqa, cl1, sak1, cl2, outcome, ret, exc,
              obs, entry, prev, result_code, length, data, xch, call,
              devvars >>

\* _initialize is entered
Wake_Begin ==
  /\ rpc = "idle"
  /\ rpc' = "init_flush"
  /\ UNCHANGED << tx, rxbuf, wire, now, start, rexc, hist >>
  /\ UNCHANGED wakefix

\* _flush_rx: in_waiting is non-zero, everything buffered is read away
Wake_FlushRead ==
  /\ rpc \in FlushPhases
  /\ rxbuf # << >>
  /\ rxbuf' = << >>
  /\ UNCHANGED << rpc, tx, wire, now, start, rexc, hist >>
  /\ UNCHANGED wakefix

\* _flush_rx: in_waiting is zero; the drain before the wake loop is followed
\* by the clock read, the drain after the settle wait by echo_test's own
\* drain, and that one by the write of the echo command
Wake_FlushExit ==
  /\ rpc \in FlushPhases
  /\ rxbuf = << >>
  /\ rpc' = CASE rpc = "init_flush" -> "wake"
              [] rpc = "settle_flush" -> "echo_flush"
              [] rpc = "echo_flush" -> "echo_write"
  /\ start' = IF rpc = "init_flush" THEN now ELSE start
  /\ UNCHANGED << tx, rxbuf, wire, now, rexc, hist >>
  /\ UNCHANGED wakefix

\* one turn of the wake loop: a burst of nulls and a sleep, or the exit
Wake_Burst ==
  /\ rpc = "wake"
  /\ IF now - start < WakePulseTicks
     THEN /\ tx' = Append(tx, WakeBytes)
          /\ \E k \in 1..2 : now' = now + k
          /\ rpc' = rpc
     ELSE /\ rpc' = "settle"
          /\ UNCHANGED << tx, now >>
  /\ UNCHANGED << rxbuf, wire, start, rexc, hist >>
  /\ UNCHANGED wakefix

\* the settle wait, then the drain
Wake_Settle ==
  /\ rpc = "settle"
  /\ now' = now + 1
  /\ rpc' = "settle_flush"
  /\ UNCHANGED << tx, rxbuf, wire, start, rexc, hist >>
  /\ UNCHANGED wakefix

\* the chip emits a byte of its own during the wake burst or the settle time
Chip_Garbage ==
  /\ rpc \in { "wake", "settle" }
  /\ hist.garbage < MaxGarbage
  /\ \E b \in GarbageBytes :
       wire' = Append(wire, [b |-> b, x |-> 0, i |-> hist.garbage + 1])
  /\ hist' = [hist EXCEPT !.garbage = hist.garbage + 1]
  /\ UNCHANGED << rpc, tx, rxbuf, now, start, rexc >>
  /\ UNCHANGED wakefix

\* echo_test: the echo command is written, the chip answers, the clock is
\* read
Echo_Write ==
  /\ rpc = "echo_write"
  /\ tx' = Append(tx, EchoFrame)
  /\ \E f \in EchoReplies :
       /\ wire' = wire \o Tagged(f, 1)
       /\ hist' = [hist EXCEPT !.resp = f]
  /\ start' = now
  /\ rpc' = "echo_wait"
  /\ UNCHANGED << rxbuf, now, rexc >>
  /\ UNCHANGED wakefix

\* echo_test: one turn of the reply loop
Echo_Poll ==
  /\ rpc = "echo_wait"
  /\ IF now - start < EchoTicks
     THEN IF Len(rxbuf) > 0
          THEN LET m == EchoTest(<< Head(rxbuf).b >>) IN
               /\ rxbuf' = Tail(rxbuf)
               /\ hist' = [hist EXCEPT !.read = Append(hist.read, Head(rxbuf))]
               /\ rpc' = IF m = "" THEN "echo_ok" ELSE "echo_fail"
               /\ rexc' = [msg |-> m, got |-> Head(rxbuf).b,
                           expected |-> CMD_ECHO]
          ELSE UNCHANGED << rpc, rxbuf, rexc, hist >>
     ELSE /\ rpc' = "echo_fail"
          /\ rexc' = [msg |-> EchoTest(<< >>), got |-> 0,
                      expected |-> CMD_ECHO]
          /\ UNCHANGED << rxbuf, hist >>
  /\ UNCHANGED << tx, wire, now, start >>
  /\ UNCHANGED wakefix

\* the monotonic clock advances while the reply is awaited
Echo_Tick ==
  /\ rpc = "echo_wait"
  /\ now - start < EchoTicks
  /\ now' = now + 1
  /\ UNCHANGED << rpc, tx, rxbuf, wire, start, rexc, hist >>
  /\ UNCHANGED wakefix

NextWake ==
  \/ Wake_Begin
  \/ Wake_FlushRead
  \/ Wake_FlushExit
  \/ Wake_Burst
  \/ Wake_Settle
  \/ Chip_Garbage
  \/ Chip_Deliver
  \/ Echo_Write
  \/ Echo_Poll
  \/ Echo_Tick

SpecWake == Init /\ [][NextWake]_vars

\* the bytes echo_test has examined
EchoRead == hist.read
IsGarbage(t) == t.x = 0

(* C31: the wake bursts are written first and the echo command after the
   settle wait and the drain, and every byte the chip emitted during the
   wake burst and the settle time has been discarded before the echo test
   reads its reply: no byte the echo test examines is one of those. *)
C31_WakeBytesDiscarded ==
  EchoEnded =>
    /\ Len(tx) >= 1
    /\ tx[Len(tx)] = EchoFrame
    /\ \A i \in 1..(Len(tx) - 1) : tx[i] = WakeBytes
    /\ \A k \in 1..Len(EchoRead) : ~ IsGarbage(EchoRead[k])

(* --------------------------- TCAL6416: set_pin -------------------------- *)
\* set_pin calls followed
MaxSetPin == 3

\* 1 << pin
Shl(pin) == 2 ^ pin
\* a | b on non-negative integers
RECURSIVE BitOr(_, _)
BitOr(a, b) ==
  IF a = 0 THEN b
  ELSE IF b = 0 THEN a
  ELSE (IF a % 2 = 1 \/ b % 2 = 1 THEN 1 ELSE 0)
       + 2 * BitOr(a \div 2, b \div 2)
\* variant: the mask is subtracted instead of cleared
AndNot_Subtract(a, m) == a - m
\* a & ~m for a non-negative a and mask m
RECURSIVE AndNot(_, _)
AndNot(a, m) ==
  IF a = 0 THEN 0
  ELSE (IF a % 2 = 1 /\ m % 2 = 0 THEN 1 ELSE 0)
       + 2 * AndNot(a \div 2, m \div 2)

\* set_port0_output / set_port1_output: the shadow takes the value and the
\* value is written to the port's output register
SetPort0Output(t, v) ==
  [t EXCEPT !.port0_output = v, !.reg = OUTPUT_PORT_0, !.value = v]
SetPort1Output(t, v) ==
  [t EXCEPT !.port1_output = v, !.reg = OUTPUT_PORT_1, !.value = v]

\* set_pin(pin, value)
Tcal_SetPin ==
  /\ tcal.calls < MaxSetPin
  /\ \E pin \in Pins, value \in BOOLEAN :
       LET t == [tcal EXCEPT !.set[pin] = IF value THEN 1 ELSE 0,
                             !.calls = tcal.calls + 1]
       IN
       IF pin < 8
       THEN LET v == IF value THEN BitOr(tcal.port0_output, Shl(pin))
                     ELSE AndNot(tcal.port0_output, Shl(pin))
            IN tcal' = SetPort0Output(t, v)
       ELSE LET p == pin - 8
                v == IF value THEN BitOr(tcal.port1_output, Shl(p))
                     ELSE AndNot(tcal.port1_output, Shl(p))
            IN tcal' = SetPort1Output(t, v)
  /\ UNCHANGED << drvvars, rxvars, call, enc, yoto >>

NextTcal == Tcal_SetPin

SpecTcal == Init /\ [][NextTcal]_vars

\* bit n of a non-negative integer
Bit(v, n) == (v \div (2 ^ n)) % 2
\* the shadow bit of a pin
ShadowBit(pin) ==
  IF pin < 8 THEN Bit(tcal.port0_output, pin)
  ELSE Bit(tcal.port1_output, pin - 8)

(* C37: set_pin changes only the addressed pin: after any sequence of
   set_pin calls from the configured defaults each shadow is within 0..255,
   the shadow bit of every pin is the value last set for it (0 when never
   set), a call for a pin of one port leaves the other port's shadow as it
   was, and the value written to the output register is the whole updated
   shadow of that port. *)
C37_OnlyAddressedPin ==
  /\ [](/\ tcal.port0_output \in 0..255
        /\ tcal.port1_output \in 0..255
        /\ \A pin \in Pins : ShadowBit(pin) = tcal.set[pin]
        /\ tcal.reg = OUTPUT_PORT_0 => tcal.value = tcal.port0_output
        /\ tcal.reg = OUTPUT_PORT_1 => tcal.value = tcal.port1_output)
  /\ [][tcal'.calls # tcal.calls =>
          /\ tcal'.reg \in { OUTPUT_PORT_0, OUTPUT_PORT_1 }
          /\ tcal'.reg = OUTPUT_PORT_0 =>
               tcal'.port1_output = tcal.port1_output
          /\ tcal'.reg = OUTPUT_PORT_1 =>
               tcal'.port0_output = tcal.port0_output]_vars

\* three calls have set pins 1 and 7 of port 0 and pin 14 of port 1
C37_Witness ==
  /\ tcal.calls = 3
  /\ tcal.port0_output = 130
  /\ tcal.port1_output = 64

(* ------------------------------- YotoMini ------------------------------ *)
\* how far from rest an encoder is turned
MaxTurn == 1
Sides == { "left", "right" }

\* the driver state YotoMini's own steps leave alone
drvfix == << device_name, last_atqa, cl1, sak1, cl2, outcome, ret, obs,
             entry, prev >>

\* __init__ with init_nfc=False: no CR95HF is constructed
Yoto_NoNfc ==
  /\ pc = "new"
  /\ yoto.nfc = "unset"
  /\ pc' = "absent"
  /\ yoto' = [yoto EXCEPT !.nfc = "none"]
  /\ UNCHANGED << drvfix, exc, tx, rxvars, call, tcal, enc >>

\* __init__ past the NFC reader (constructed, or left out): the DAC and the
\* I2S output, volume set and unmuted, or none with init_audio=False
Yoto_Audio ==
  /\ yoto.audio = "unset"
  /\ pc \in { "ready", "absent" }
  /\ \E init_audio \in BOOLEAN :
       yoto' = [yoto EXCEPT !.nfc = IF pc = "ready" THEN "live" ELSE "none",
                            !.audio = IF init_audio THEN "open" ELSE "none",
                            !.dac = IF init_audio THEN "unmuted" ELSE "none"]
  /\ UNCHANGED << pc, drvfix, exc, tx, rxvars, call, tcal, enc >>

\* a created encoder whose position YotoMini has just read
Created(e) ==
  [e EXCEPT !.obj = "live", !.last_position = e.position,
            !.pos0 = e.position]
\* __init__: the two encoders, each with the position read at construction,
\* or none with init_encoders=False
Yoto_Encoders ==
  /\ yoto.audio # "unset"
  /\ enc.left.obj = "unset"
  /\ \E init_encoders \in BOOLEAN :
       enc' = IF init_encoders
              THEN [enc EXCEPT !.left = Created(enc.left),
                               !.right = Created(enc.right)]
              ELSE [enc EXCEPT !.left.obj = "none", !.right.obj = "none"]
  /\ UNCHANGED << drvvars, rxvars, call, tcal, yoto >>

\* a knob is turned by one detent: the hardware counter moves
Encoder_Turn ==
  /\ \E s \in Sides, d \in { -1, 1 } :
       /\ enc[s].obj \in { "unset", "live" }
       /\ enc[s].position + d \in (0 - MaxTurn)..MaxTurn
       /\ enc' = [enc EXCEPT ![s].position = enc[s].position + d]
  /\ UNCHANGED << drvvars, rxvars, call, tcal, yoto >>

\* variant: the delta is returned but the last position is not updated
Delta_KeepLast(e) ==
  [e |-> [e EXCEPT !.sum = e.sum + (e.position - e.last_position)],
   ret |-> e.position - e.last_position]

\* encoder_left_delta / encoder_right_delta on one encoder: the encoder
\* afterwards and the value returned
Delta(e) ==
  IF e.obj = "none" THEN [e |-> e, ret |-> 0]
  ELSE LET current == e.position
           delta == current - e.last_position
       IN [e |-> [e EXCEPT !.last_position = current,
                           !.sum = e.sum + delta],
           ret |-> delta]

Encoder_LeftDelta ==
  /\ enc.left.obj \in { "none", "live" }
  /\ enc' = [enc EXCEPT !.left = Delta(enc.left).e,
                        !.op = "left", !.ret = Delta(enc.left).ret]
  /\ UNCHANGED << drvvars, rxvars, call, tcal, yoto >>

Encoder_RightDelta ==
  /\ enc.right.obj \in { "none", "live" }
  /\ enc' = [enc EXCEPT !.right = Delta(enc.right).e,
                        !.op = "right", !.ret = Delta(enc.right).ret]
  /\ UNCHANGED << drvvars, rxvars, call, tcal, yoto >>

NextEnc ==
  \/ Yoto_NoNfc
  \/ Yoto_Audio
  \/ Yoto_Encoders
  \/ Encoder_Turn
  \/ Encoder_LeftDelta
  \/ Encoder_RightDelta

SpecEnc == Init /\ [][NextEnc]_vars

\* a step that is a delta call on one side
DeltaStep(s) ==
  /\ enc' # enc
  /\ enc'.op = s
  /\ enc'.left.position = enc.left.position
  /\ enc'.right.position = enc.right.position
  /\ enc'.left.obj = enc.left.obj

(* C36: encoder_left_delta and encoder_right_delta return the change of
   position since the previous call (since construction for the first), so
   the values returned for an encoder add up to its position at the last
   call minus its position at construction; a call with no movement since
   the previous one returns 0; a call on one encoder leaves the other
   encoder's bookkeeping as it was. *)
C36_DeltasAddUp ==
  /\ [](\A s \in Sides :
          enc[s].obj = "live" =>
            enc[s].sum = enc[s].last_position - enc[s].pos0)
  /\ [][\A s \in Sides :
          DeltaStep(s) =>
            /\ enc[s].obj = "live" =>
                 /\ enc'.ret = enc[s].position - enc[s].last_position
                 /\ enc'[s].last_position = enc[s].position
                 /\ enc'[s].sum = enc[s].position - enc[s].pos0
                 /\ enc[s].position = enc[s].last_position => enc'.ret = 0
            /\ enc[s].obj = "none" => enc'.ret = 0
            /\ \A o \in Sides \ { s } : enc'[o] = enc[o]]_vars

\* the left knob was turned back before construction and two steps forward
\* since, which the last left call returned; the right one went one step
\* back and its call has been made
C36_Witness ==
  /\ enc.op = "left" /\ enc.ret = 2
  /\ enc.left.obj = "live"
  /\ enc.left.pos0 = -1
  /\ enc.left.sum = 2
  /\ enc.left.position = 1
  /\ enc.right.pos0 = 0
  /\ enc.right.sum = -1
  /\ enc.right.position = -1

\* deinit() of an encoder that exists
Released(e) == IF e.obj = "live" THEN [e EXCEPT !.obj = "released"] ELSE e

\* YotoMini.deinit: audio stopped and deinitialised, DAC muted, field_off
\* on the NFC reader, then the encoders; nothing catches an exception of
\* field_off, so what follows it is skipped when it raises
Yoto_Deinit ==
  /\ enc.left.obj \in { "none", "live" }
  /\ yoto.deinit = "none"
  /\ pc \in { "ready", "absent" }
  /\ \E d \in FieldOffDeliveries :
       LET r == ReadResponse(d)
           raised == yoto.nfc = "live" /\ r.timeout
       IN
       /\ tx' = IF yoto.nfc = "live" THEN << FieldOffFrame >> ELSE tx
       /\ exc' = IF raised THEN TimeoutError(r.msg) ELSE exc
       /\ yoto' = [yoto EXCEPT
                     !.audio = IF yoto.audio = "open" THEN "released"
                               ELSE yoto.audio,
                     !.dac = IF yoto.dac = "unmuted" THEN "muted"
                             ELSE yoto.dac,
                     !.deinit = IF raised THEN "raised" ELSE "returned"]
       /\ enc' = IF raised THEN enc
                 ELSE [enc EXCEPT !.left = Released(enc.left),
                                  !.right = Released(enc.right)]
  /\ UNCHANGED << pc, drvfix, rxvars, call, tcal >>

NextDeinit ==
  \/ Initialize_Wake
  \/ Initialize_Echo
  \/ Initialize_Idn
  \/ Initialize_Protocol
  \/ Yoto_NoNfc
  \/ Yoto_Audio
  \/ Yoto_Encoders
  \/ Yoto_Deinit

SpecDeinit == Init /\ [][NextDeinit]_vars

DeinitCalled == yoto.deinit # "none"

(* C33: after YotoMini.deinit every peripheral that was initialised is
   released: the audio output stopped and deinitialised, the DAC muted, the
   field-off command sent to the NFC reader and both encoders
   deinitialised, whatever the NFC chip answers or fails to answer. *)
C33_AllReleased ==
  DeinitCalled =>
    /\ yoto.audio \in { "none", "released" }
    /\ yoto.dac \in { "none", "muted" }
    /\ yoto.nfc = "live" => tx = << FieldOffFrame >>
    /\ enc.left.obj \in { "none", "released" }
    /\ enc.right.obj \in { "none", "released" }

====
